---------------------------- MODULE Spec2Model ----------------------------
(***************************************************************************)
(* Model of the portfolio optimizer's engine: backend/app/backtester.py,   *)
(* backend/app/optimizer.py and the /api/optimize handler of               *)
(* backend/app/main.py.                                                    *)
(*                                                                         *)
(* Numbers.  The program computes in binary floating point.  The model     *)
(* computes the same expressions over exact rationals <<n, d>> (d > 0, in  *)
(* lowest terms), so that "exactly equal" means equal as numbers.  A value *)
(* the program obtains through a square root is carried by its square.     *)
(* A division by zero yields the IEEE value numpy yields (inf, -inf, nan). *)
(*                                                                         *)
(* Dates are day numbers 1, 2, ...; a month is MonthDays consecutive days, *)
(* a quarter QuarterMonths months, a year YearQuarters quarters.  A price  *)
(* panel has an index (the days that have a row, ascending) and one row of *)
(* prices per index entry; a price of 0 stands for NaN (no quote).         *)
(***************************************************************************)
EXTENDS Integers, Sequences, FiniteSets, TLC

\* ------------------------------------------------------------------ bounds

\* Number of assets (columns of the price panel).
NumAssets == 2
\* Weights are multiples of 1/WeightDen.
WeightDen == 4
\* Last calendar day a price panel may reach.
MaxDay == 8
\* Calendar scale: days per month, months per quarter, quarters per year.
MonthDays == 2
QuarterMonths == 2
YearQuarters == 2
\* Last calendar day of the panels and benchmarks checked for date alignment.
MaxAlignDay == 13
\* Most periods of a return matrix handed to an objective function.
MaxObs == 3
\* Rows a price panel needs to pass the request's data check (60 in the program),
\* and points of the frontier's target grid (200 in the program).
MinDays == 3
NumTargets == 3
\* The solver's candidate weights are multiples of 1/WeightSteps.
WeightSteps == 2
\* Solver runs of one request that may fail on a problem that has a solution.
MaxFailures == 1
\* Monte Carlo portfolios drawn per frontier (the program draws 2000), the
\* values a draw of the generator takes, the generator states a process may be
\* in when a call starts, and the calls of one run.
NumSimulations == 1
RandomLevels == 3
MaxSeed == 1
MaxCalls == 2
\* ledoit_wolf_shrinkage: the assets and rows of its return matrix, and the
\* significant bits of the floating-point numbers it computes with (the program's
\* doubles have 53).
ShrinkAssets == 3
MaxShrinkRows == 3
MantissaBits == 4

Tickers == 1..NumAssets

\* --------------------------------------------------------------- rationals

RECURSIVE GCD(_, _)
GCD(a, b) == IF b = 0 THEN a ELSE GCD(b, a % b)

Abs(x) == IF x < 0 THEN -x ELSE x

\* The rational n/d (d # 0) in lowest terms with a positive denominator.
Rat(n, d) ==
    LET g == GCD(Abs(n), Abs(d))
        s == IF d < 0 THEN -1 ELSE 1
    IN  <<(s * n) \div g, (s * d) \div g>>

Zero == <<0, 1>>
One == <<1, 1>>
RInt(k) == <<k, 1>>
RAdd(x, y) == Rat(x[1] * y[2] + y[1] * x[2], x[2] * y[2])
RSub(x, y) == Rat(x[1] * y[2] - y[1] * x[2], x[2] * y[2])
RMul(x, y) == Rat(x[1] * y[1], x[2] * y[2])
RDiv(x, y) == Rat(x[1] * y[2], x[2] * y[1])
RAbs(x) == <<Abs(x[1]), x[2]>>
RLt(x, y) == x[1] * y[2] < y[1] * x[2]
RLeq(x, y) == x[1] * y[2] <= y[1] * x[2]

RMin(x, y) == IF RLt(y, x) THEN y ELSE x
RMax(x, y) == IF RLt(x, y) THEN y ELSE x

\* Sum and product of f[i] over i in lo..hi (f a function or sequence of rationals).
RECURSIVE RSum(_, _, _)
RSum(f, lo, hi) == IF lo > hi THEN Zero ELSE RAdd(f[lo], RSum(f, lo + 1, hi))

RECURSIVE RProd(_, _, _)
RProd(f, lo, hi) == IF lo > hi THEN One ELSE RMul(f[lo], RProd(f, lo + 1, hi))

\* ------------------------------------------------------------ price panels

IsNaN(p) == p = 0

\* weights.get(t, 0): the weight of a ticker missing from the map is 0.
\* Weights are kept as rationals.
WeightGet_MissingIsOne(weights, t) == IF t \in DOMAIN weights THEN weights[t] ELSE One
WeightGet(weights, t) == IF t \in DOMAIN weights THEN weights[t] ELSE Zero

\* weight_vector = np.array([weights.get(t, 0) for t in tickers])
WeightVector(weights) == [t \in Tickers |-> WeightGet(weights, t)]

Len0(panel) == Len(panel.index)


\* prices.pct_change(): the frame is padded forward first (fill_method='pad'), so a
\* cell is NaN only while its column has had no quote yet; row 1 has no change.
RECURSIVE Padded(_, _, _)
Padded(panel, i, t) ==
    IF i = 0 THEN 0
    ELSE IF ~IsNaN(panel.prices[i][t]) THEN panel.prices[i][t]
    ELSE Padded(panel, i - 1, t)

\* The change of column t at row i >= 2 is defined iff both padded prices are.
ChangeDefined(panel, i, t) ==
    ~IsNaN(Padded(panel, i, t)) /\ ~IsNaN(Padded(panel, i - 1, t))

PctChange(panel, i, t) ==
    RSub(Rat(Padded(panel, i, t), Padded(panel, i - 1, t)), One)

\* .dropna(): the rows (positions in the panel) whose every column has a change.
ReturnRows(panel) ==
    {i \in 2..Len0(panel) : \A t \in Tickers : ChangeDefined(panel, i, t)}

\* The k-th smallest element of a finite set of integers.
RECURSIVE SortedSeq(_)
SortedSeq(S) ==
    IF S = {} THEN <<>>
    ELSE LET m == CHOOSE x \in S : \A y \in S : x <= y
         IN  <<m>> \o SortedSeq(S \ {m})

\* asset_returns = prices.pct_change().dropna(): index (days) and one row of
\* returns per kept day.
AssetReturns(panel) ==
    LET rows == SortedSeq(ReturnRows(panel))
    IN  [index |-> [k \in 1..Len(rows) |-> panel.index[rows[k]]],
         rows  |-> [k \in 1..Len(rows) |->
                        [t \in Tickers |-> PctChange(panel, rows[k], t)]]]

\* asset_returns.dot(weight_vector): R_p = w1*R1 + w2*R2 + ...
Dot(row, wv) == RSum([t \in DOMAIN wv |-> RMul(row[t], wv[t])], 1, Len(wv))

PortfolioReturns(asset_returns, wv) ==
    [k \in 1..Len(asset_returns.rows) |-> Dot(asset_returns.rows[k], wv)]

\* (1 + portfolio_returns).cumprod()
CumProd(rets) ==
    [k \in 1..Len(rets) |-> RProd([j \in 1..Len(rets) |-> RAdd(One, rets[j])], 1, k)]

\* ------------------------------------------------------- schedule calendar

\* Days in one period of the resample rule chosen at backtester.py 32-39
\* ("M", "Q", "Y"); 0 when there is no rule ("never", or any other string).
PeriodDays(rebalance_frequency) ==
    IF rebalance_frequency = "monthly" THEN MonthDays
    ELSE IF rebalance_frequency = "quarterly" THEN MonthDays * QuarterMonths
    ELSE IF rebalance_frequency = "annual" THEN MonthDays * QuarterMonths * YearQuarters
    ELSE 0

\* The period (numbered from 0) a day falls in, and the period's last calendar day.
PeriodOf(day, L) == (day - 1) \div L
PeriodEnd(p, L) == (p + 1) * L

\* rebalance_periods = prices.resample(freq).last().index: resample labels each
\* period by its last CALENDAR day, one label per period from the first row's
\* period to the last row's; [] when there is no rule.
RebalancePeriods(panel, rebalance_frequency) ==
    LET L == PeriodDays(rebalance_frequency)
    IN  IF L = 0 \/ Len0(panel) = 0 THEN {}
        ELSE {PeriodEnd(p, L) :
                p \in PeriodOf(panel.index[1], L)..PeriodOf(panel.index[Len0(panel)], L)}


\* ------------------------------------------------------------------- state

VARIABLES
    bt_in,      \* the arguments of a run_backtest call
    bt_out,     \* what the call produced: a result, or the exception it raised
    rb_in,      \* the arguments of a run_backtest_with_rebalancing call
    rb,         \* its locals: position, row, shares, values, costs, rebalance dates
    rb_out,     \* what the call produced
    obj_in,     \* the arguments of one evaluation of an objective function
    obj_out,    \* the number it returned, or the exception it raised
    api,        \* a POST /api/optimize request in progress: position, request, locals
    optimization_result,        \* what optimize_portfolio produced for it
    ef,                         \* the locals of calculate_efficient_frontier
    efficient_frontier_data,    \* what calculate_efficient_frontier produced
    response,   \* the HTTP response
    np_random,  \* the state of numpy's global random generator (module state)
    ef_calls,   \* the calls of calculate_efficient_frontier that have returned
    lw_in,      \* the return matrix of a ledoit_wolf_shrinkage call
    lw,         \* its locals: position, row, sample covariance, target, delta_num
    lw_out,     \* what the call produced
    cv_in,      \* a price panel and the weight vector the solver stops at
    cv,         \* optimize_portfolio, the frontier and run_backtest on them
    st_in,      \* the arguments of a run_stress_test call and the market data
    st,         \* its locals: position, scenario, results
    st_out      \* what the call produced

btVars == <<bt_in, bt_out>>
rbVars == <<rb_in, rb, rb_out>>
objVars == <<obj_in, obj_out>>
efVars == <<ef, efficient_frontier_data>>
apiVars == <<api, optimization_result, ef, efficient_frontier_data, response>>
rngVars == <<np_random, ef_calls>>
lwVars == <<lw_in, lw, lw_out>>
cvVars == <<cv_in, cv>>
stVars == <<st_in, st, st_out>>
vars == <<bt_in, bt_out, rb_in, rb, rb_out, obj_in, obj_out,
          api, optimization_result, ef, efficient_frontier_data, response,
          np_random, ef_calls, lw_in, lw, lw_out, cv_in, cv,
          st_in, st, st_out>>

Idle == [status |-> "idle"]
Pending == [status |-> "pending"]
Raised(e) == [status |-> "raised", exception |-> e]

\* ------------------------------------------- run_backtest_with_rebalancing

RowValue(shares, row) == RSum([t \in Tickers |-> RMul(shares[t], RInt(row[t]))], 1, NumAssets)

\* Lines 18-47: the weight vector, the initial share counts bought at the first
\* row's prices (prices.iloc[0] raises IndexError on an empty panel), the rule.
RBStart ==
    /\ rb.pc = "call"
    /\ IF Len0(rb_in.prices) = 0
       THEN /\ rb' = [rb EXCEPT !.pc = "raised"]
            /\ rb_out' = Raised("IndexError")
       ELSE /\ rb' = [rb EXCEPT
                 !.pc = "loop",
                 !.i = 1,
                 !.shares = [t \in Tickers |->
                     RDiv(RMul(WeightVector(rb_in.weights)[t], RInt(rb_in.initial_capital)),
                          RInt(rb_in.prices.prices[1][t]))]]
            /\ rb_out' = rb_out
    /\ UNCHANGED <<rb_in, btVars, objVars, apiVars, rngVars, lwVars, cvVars, stVars>>

\* Lines 49-73, one row of the loop: value the holdings, record the value, and on
\* a row whose date is one of rebalance_periods trade back to the target weights,
\* paying transaction_cost_pct of the dollars traded out of the portfolio.
RBRow ==
    /\ rb.pc = "loop"
    /\ rb.i <= Len0(rb_in.prices)
    /\ LET date == rb_in.prices.index[rb.i]
           row == rb_in.prices.prices[rb.i]
           weight_vector == WeightVector(rb_in.weights)
           current_value == RowValue(rb.shares, row)
           current_dollars == [t \in Tickers |-> RMul(rb.shares[t], RInt(row[t]))]
           target_dollars == [t \in Tickers |-> RMul(weight_vector[t], current_value)]
           trade_dollars == [t \in Tickers |-> RAbs(RSub(target_dollars[t], current_dollars[t]))]
           transaction_cost == RMul(RSum(trade_dollars, 1, NumAssets), rb_in.transaction_cost_pct)
           net_value == RSub(current_value, transaction_cost)
           new_dollars == [t \in Tickers |-> RMul(weight_vector[t], net_value)]
       IN  IF date \in RebalancePeriods(rb_in.prices, rb_in.rebalance_frequency)
           THEN rb' = [rb EXCEPT
                    !.i = rb.i + 1,
                    !.portfolio_values = Append(rb.portfolio_values, current_value),
                    !.total_transaction_costs = RAdd(rb.total_transaction_costs, transaction_cost),
                    !.transaction_costs_incurred =
                        Append(rb.transaction_costs_incurred, [date |-> date, cost |-> transaction_cost]),
                    !.rebalance_dates = Append(rb.rebalance_dates, date),
                    !.shares = [t \in Tickers |-> RDiv(new_dollars[t], RInt(row[t]))]]
           ELSE rb' = [rb EXCEPT
                    !.i = rb.i + 1,
                    !.portfolio_values = Append(rb.portfolio_values, current_value)]
    /\ UNCHANGED <<rb_in, rb_out, btVars, objVars, apiVars, rngVars, lwVars, cvVars, stVars>>

\* Lines 75-90: the result, once every row has been visited.
RBFinish ==
    /\ rb.pc = "loop"
    /\ rb.i > Len0(rb_in.prices)
    /\ rb' = [rb EXCEPT !.pc = "done"]
    /\ rb_out' =
         [status |-> "returned",
          portfolio_value |-> rb.portfolio_values,
          total_return |->
              RSub(RDiv(rb.portfolio_values[Len(rb.portfolio_values)], RInt(rb_in.initial_capital)), One),
          total_transaction_costs |-> rb.total_transaction_costs,
          transaction_cost_pct_of_initial |->
              RDiv(rb.total_transaction_costs, RInt(rb_in.initial_capital)),
          num_rebalances |-> Len(rb.rebalance_dates),
          rebalance_dates |-> rb.rebalance_dates]
    /\ UNCHANGED <<rb_in, btVars, objVars, apiVars, rngVars, lwVars, cvVars, stVars>>

RBLocals0 ==
    [pc |-> "call", i |-> 0, shares |-> [t \in Tickers |-> Zero],
     portfolio_values |-> <<>>, total_transaction_costs |-> Zero,
     transaction_costs_incurred |-> <<>>, rebalance_dates |-> <<>>]


\* ------------------------------------------------------------ run_backtest

\* "if len(common_dates) > 10": the number of common dates that is NOT enough.
MinCommon == 10

SeqToSet(q) == {q[k] : k \in 1..Len(q)}

\* Line 164 (and 263): "Need sufficient data for regression".
EnoughCommon_AtLeast(common_dates) == Cardinality(common_dates) >= MinCommon
EnoughCommon(common_dates) == Cardinality(common_dates) > MinCommon

\* No benchmark (benchmark_data is None), and a benchmark series: its dates
\* (ascending) and one quote per date.
NoBenchmark == [present |-> FALSE, index |-> <<>>, prices |-> <<>>]

\* benchmark_data.pct_change().dropna(): the first quote has no change.
BenchReturnDates(b) == {b.index[k] : k \in 2..Len(b.index)}
BenchReturnOn(b, day) ==
    LET k == CHOOSE j \in 2..Len(b.index) : b.index[j] = day
    IN  RSub(Rat(b.prices[k], b.prices[k - 1]), One)

\* round(value, 2): to the nearest hundredth, ties to the even neighbour.
Round2(x) ==
    LET n == 100 * x[1]
        q == n \div x[2]
        r == n % x[2]
    IN  IF 2 * r < x[2] THEN Rat(q, 100)
        ELSE IF 2 * r > x[2] THEN Rat(q + 1, 100)
        ELSE IF q % 2 = 0 THEN Rat(q, 100)
        ELSE Rat(q + 1, 100)

\* np.sort: the value of rank r (1..Len(x)) among the entries of x.
Ranked(x, r) ==
    CHOOSE v \in {x[k] : k \in 1..Len(x)} :
        /\ Cardinality({k \in 1..Len(x) : RLt(x[k], v)}) < r
        /\ r <= Cardinality({k \in 1..Len(x) : RLeq(x[k], v)})

\* np.percentile(x, q), linear interpolation (the default): the position
\* (n - 1) * q / 100 in the sorted values, between the two neighbours.  The
\* mistaken variant counts the position from the top.
PercentileAt(x, position) ==
    LET below == position[1] \div position[2]
        fraction == RSub(position, RInt(below))
    IN  IF below + 1 >= Len(x) THEN Ranked(x, Len(x))
        ELSE RAdd(Ranked(x, below + 1),
                  RMul(fraction, RSub(Ranked(x, below + 2), Ranked(x, below + 1))))
Percentile_FromTop(x, q) == PercentileAt(x, Rat((Len(x) - 1) * (100 - q), 100))
Percentile(x, q) == PercentileAt(x, Rat((Len(x) - 1) * q, 100))

RECURSIVE DrawdownFrom(_, _, _, _), SeriesMin(_, _), DrawdownLoop(_, _, _, _), SortedByDepth(_)

\* Lines 112-113: rolling_max = portfolio_value.cummax() and drawdown =
\* (portfolio_value - rolling_max) / rolling_max, period by period from k on;
\* peak is the rolling maximum before k and acc the drawdowns before k.
DrawdownFrom(portfolio_value, k, peak, acc) ==
    IF k > Len(portfolio_value) THEN acc
    ELSE CHOOSE out \in
            {DrawdownFrom(portfolio_value, k + 1, rolling_max,
                          Append(acc, RDiv(RSub(portfolio_value[k], rolling_max), rolling_max))) :
                rolling_max \in {IF k = 1 THEN portfolio_value[1]
                                 ELSE RMax(peak, portfolio_value[k])}} : TRUE

DrawdownSeries(portfolio_value) ==
    DrawdownFrom(SubSeq(portfolio_value, 1, Len(portfolio_value)), 1, Zero, <<>>)

\* drawdown.min()
SeriesMin(x, k) == IF k = 1 THEN x[1] ELSE RMin(SeriesMin(x, k - 1), x[k])

\* Lines 340-344: the locals of the loop over the drawdown series.
DrawdownLocals0 ==
    [is_drawdown |-> FALSE, start_date |-> 0, trough_date |-> 0,
     max_dd_in_period |-> Zero, drawdown_periods |-> <<>>]

\* Lines 347-366: one pass of the loop, on the date and the drawdown of a period.
\* A period is recorded on the first date at which the drawdown is back at 0.
DrawdownStep(s, date, dd) ==
    IF RLt(dd, Zero)
    THEN IF ~s.is_drawdown
         THEN [s EXCEPT !.is_drawdown = TRUE, !.start_date = date,
                        !.max_dd_in_period = dd, !.trough_date = date]
         ELSE IF RLt(dd, s.max_dd_in_period)
         THEN [s EXCEPT !.max_dd_in_period = dd, !.trough_date = date]
         ELSE s
    ELSE IF s.is_drawdown
    THEN [s EXCEPT !.is_drawdown = FALSE,
                   !.drawdown_periods =
                       Append(@, [start |-> s.start_date, end |-> date,
                                  trough |-> s.trough_date, depth |-> s.max_dd_in_period,
                                  recovery_days |-> date - s.start_date])]
    ELSE s

\* Lines 346-366: the loop from period k on.
DrawdownLoop(s, index, drawdown, k) ==
    IF k > Len(drawdown) THEN s
    ELSE DrawdownLoop(DrawdownStep(s, index[k], drawdown[k]), index, drawdown, k + 1)

\* sorted(drawdown_periods, key=lambda x: x['depth']): ascending and stable.
InsertByDepth(sorted, p) ==
    LET n == Cardinality({k \in 1..Len(sorted) : RLeq(sorted[k].depth, p.depth)})
    IN  SubSeq(sorted, 1, n) \o <<p>> \o SubSeq(sorted, n + 1, Len(sorted))

SortedByDepth(periods) ==
    IF periods = <<>> THEN <<>>
    ELSE InsertByDepth(SortedByDepth(SubSeq(periods, 1, Len(periods) - 1)),
                       periods[Len(periods)])

\* Line 369: the first five of the periods sorted by depth.
TopCount == 5
TopDrawdowns(index, drawdown) ==
    LET sorted == SortedByDepth(
                      DrawdownLoop(DrawdownLocals0, index, drawdown, 1).drawdown_periods)
    IN  SubSeq(sorted, 1, IF Len(sorted) < TopCount THEN Len(sorted) ELSE TopCount)

\* Lines 396-443: the keys of the dict returned.  The return statement of line
\* 396 ends the call, so the block of lines 445-468, which would add the key
\* "rebalancing" when rebalance_freq != "never", is never run.
ResultKeys(rebalance_freq) ==
    {"metrics", "trailing_returns", "monthly_returns", "drawdowns", "correlations",
     "asset_metrics", "chart_data"}

\* The whole of run_backtest (lines 92-443) on arguments a.  The metrics kept
\* are total_return, max_drawdown, the number of return periods, the daily
\* values at risk of lines 274-275, and, of each benchmark metric, whether the regression block
\* assigned it or left it at the 0 of lines 152-158 and 260.
run_backtest(a) ==
    LET weight_vector == WeightVector(a.weights)
        asset_returns == AssetReturns(a.prices)
        portfolio_returns == PortfolioReturns(asset_returns, weight_vector)
        cumulative_returns == CumProd(portfolio_returns)
        portfolio_value ==
            [k \in 1..Len(cumulative_returns) |->
                RMul(RInt(a.initial_capital), cumulative_returns[k])]
        days == Len(portfolio_returns)
        drawdown == DrawdownSeries(portfolio_value)
        b == a.benchmark_data
        has_benchmark == b.present /\ Len(b.index) > 0
        common_dates == SeqToSet(asset_returns.index) \cap SeqToSet(b.index)
        regression == has_benchmark /\ EnoughCommon(common_dates)
        bench_rets_aligned == [d \in common_dates |-> BenchReturnOn(b, d)]
        assigned ==
            {"beta", "alpha", "tracking_error", "information_ratio", "r_squared",
             "benchmark_correlation"}
            \cup (IF \E d \in common_dates : RLt(Zero, bench_rets_aligned[d])
                  THEN {"up_capture"} ELSE {})
            \cup (IF \E d \in common_dates : RLt(bench_rets_aligned[d], Zero)
                  THEN {"down_capture"} ELSE {})
    IN  IF days = 0
        THEN \* line 117: cumulative_returns.iloc[-1] of an empty series
             Raised("IndexError")
        ELSE IF days < 1
        THEN \* lines 122-123
             [status |-> "returned", keys |-> {"metrics", "chart_data"},
              metrics |-> <<>>, chart_data |-> <<>>]
        ELSE IF regression /\ ~(common_dates \subseteq BenchReturnDates(b))
        THEN \* line 166: .loc[common_dates] with a date the benchmark returns lack
             Raised("KeyError")
        ELSE IF regression /\ \A d, e \in common_dates : bench_rets_aligned[d] = bench_rets_aligned[e]
        THEN \* line 213: linregress refuses identical x values
             Raised("ValueError")
        ELSE [status |-> "returned",
              keys |-> ResultKeys(a.rebalance_freq),
              metrics |->
                  [total_return |-> RSub(cumulative_returns[days], One),
                   max_drawdown |-> SeriesMin(drawdown, days),
                   days |-> days,
                   var_95_daily |-> Percentile(portfolio_returns, 5),
                   var_99_daily |-> Percentile(portfolio_returns, 1),
                   benchmark_assigned |-> IF regression THEN assigned ELSE {}],
              drawdowns |-> TopDrawdowns(asset_returns.index, drawdown),
              chart_data |->
                  [k \in 1..days |->
                      [date |-> asset_returns.index[k], value |-> Round2(portfolio_value[k])]]]

\* One call of run_backtest.
RunBacktest ==
    /\ bt_out.status = "pending"
    /\ bt_out' = run_backtest(bt_in)
    /\ UNCHANGED <<bt_in, rbVars, objVars, apiVars, rngVars, lwVars, cvVars, stVars>>


\* --------------------------------------------------- optimizer: statistics

\* A return matrix is a sequence of rows, one per period, each row a function
\* from Tickers to rationals.  The statistics below need at least 2 rows.

\* returns.mean() and returns.cov() (the sample covariance, divisor T - 1) of a
\* return matrix with the columns cols.
MeanOver(cols, returns) ==
    [t \in cols |->
        RDiv(RSum([k \in 1..Len(returns) |-> returns[k][t]], 1, Len(returns)),
             RInt(Len(returns)))]

CovOver(cols, returns) ==
    LET T == Len(returns)
        m == MeanOver(cols, returns)
    IN  [s \in cols |-> [t \in cols |->
            RDiv(RSum([k \in 1..T |->
                         RMul(RSub(returns[k][s], m[s]), RSub(returns[k][t], m[t]))], 1, T),
                 RInt(T - 1))]]

MeanReturns(returns) == MeanOver(Tickers, returns)

SampleCov(returns) == CovOver(Tickers, returns)

\* np.dot(weights.T, np.dot(cov_matrix, weights))
QuadForm(weights, cov_matrix) ==
    RSum([s \in DOMAIN weights |->
            RMul(weights[s],
                 RSum([t \in DOMAIN weights |-> RMul(cov_matrix[s][t], weights[t])],
                      1, Len(weights)))],
         1, Len(weights))

\* np.sqrt(x) of a rational x >= 0, carried by its argument.
Sqrt(x) == [sqrt_of |-> x]

Sign(x) == IF x[1] > 0 THEN 1 ELSE IF x[1] < 0 THEN -1 ELSE 0

\* num / np.sqrt(den2) in IEEE arithmetic: a finite quotient is carried by its
\* numerator and the argument of the root; a zero divisor gives inf, -inf or nan
\* and no exception.
OverSqrt(num, den2) ==
    IF den2 = Zero
    THEN [kind |-> IF Sign(num) > 0 THEN "inf" ELSE IF Sign(num) < 0 THEN "-inf" ELSE "nan"]
    ELSE [kind |-> "finite", num |-> num, sqrt_of |-> den2]

\* -q for such a quotient.
Negated(q) ==
    IF q.kind = "finite" THEN [q EXCEPT !.num = RSub(Zero, q.num)]
    ELSE IF q.kind = "inf" THEN [kind |-> "-inf"]
    ELSE IF q.kind = "-inf" THEN [kind |-> "inf"]
    ELSE q

\* calculate_portfolio_performance: (returns, std, sharpe).
calculate_portfolio_performance(weights, mean_returns, cov_matrix, risk_free_rate, annualization_factor) ==
    LET returns == RMul(Dot(mean_returns, weights), RInt(annualization_factor))
        var == RMul(QuadForm(weights, cov_matrix), RInt(annualization_factor))
    IN  [returns |-> returns,
         std     |-> Sqrt(var),
         sharpe  |-> OverSqrt(RSub(returns, risk_free_rate), var)]

\* ------------------------------------------- optimizer: objective functions

\* What a call produces: the number it returns, or the exception it raises.  A
\* number is finite (an ordinary value), one of the sentinels 1e10 and -1e10, or
\* one of the IEEE values inf, -inf and nan.  The tests "x < 1e-10" of the code
\* are tests "x = 0" here: every nonzero magnitude of the model is far above
\* 1e-10.
Returned(v) == [status |-> "returned", value |-> v]
Finite == [kind |-> "finite"]
Sentinel(s) == [kind |-> "sentinel", sign |-> s]
NaN == [kind |-> "nan"]

\* returns_matrix.dot(weights)
MatrixDot(returns_matrix, weights) ==
    [k \in 1..Len(returns_matrix) |-> Dot(returns_matrix[k], weights)]

\* np.mean of a non-empty sequence of rationals.
Mean(xs) == RDiv(RSum(xs, 1, Len(xs)), RInt(Len(xs)))


\* mar_daily = (1 + mar) ** (1 / annualization_factor) - 1, for the two annual
\* rates whose root is rational: mar = 0 gives 0 and mar = -1 gives -1.
MarDaily(mar) == mar

\* negative_sharpe
negative_sharpe(a) ==
    Returned(Negated(calculate_portfolio_performance(
        a.weights, a.mean_returns, a.cov_matrix, a.risk_free_rate, a.annualization_factor).sharpe))

\* portfolio_volatility
portfolio_volatility(a) ==
    Returned([kind |-> "finite", sqrt_of |->
        calculate_portfolio_performance(
            a.weights, a.mean_returns, a.cov_matrix, a.risk_free_rate, a.annualization_factor).std.sqrt_of])

\* negative_return
negative_return(a) ==
    Returned([kind |-> "finite", rational |->
        RSub(Zero, RMul(Dot(a.mean_returns, a.weights), RInt(a.annualization_factor)))])

\* kelly_criterion: -mean(log(1 + R_p)), or 1e10 when a period loses everything.
kelly_criterion(a) ==
    LET portfolio_returns == MatrixDot(a.returns_matrix, a.weights)
    IN  IF \E k \in 1..Len(portfolio_returns) : RLeq(portfolio_returns[k], RInt(-1))
        THEN Returned(Sentinel(1))
        ELSE Returned(Finite)

\* negative_sortino
negative_sortino(a) ==
    LET portfolio_returns == MatrixDot(a.returns_matrix, a.weights)
        mean_return == RMul(Mean(portfolio_returns), RInt(a.annualization_factor))
        downside_diff == [k \in 1..Len(portfolio_returns) |->
                             RMin(RSub(portfolio_returns[k], MarDaily(a.mar)), Zero)]
        downside_variance ==
            Mean([k \in 1..Len(portfolio_returns) |-> RMul(downside_diff[k], downside_diff[k])])
        downside_deviation2 == RMul(downside_variance, RInt(a.annualization_factor))
    IN  IF downside_deviation2 = Zero
        THEN Returned(Sentinel(-1))
        ELSE Returned(Negated(OverSqrt(RSub(mean_return, a.mar), downside_deviation2)))

\* negative_omega
negative_omega(a) ==
    LET portfolio_returns == MatrixDot(a.returns_matrix, a.weights)
        excess_returns == [k \in 1..Len(portfolio_returns) |->
                              RSub(portfolio_returns[k], MarDaily(a.mar))]
        upside_sum == RSum([k \in 1..Len(excess_returns) |-> RMax(excess_returns[k], Zero)],
                           1, Len(excess_returns))
        downside_sum == RAbs(RSum([k \in 1..Len(excess_returns) |-> RMin(excess_returns[k], Zero)],
                                  1, Len(excess_returns)))
    IN  IF downside_sum = Zero
        THEN Returned(Sentinel(-1))
        ELSE Returned([kind |-> "finite", rational |-> RSub(Zero, RDiv(upside_sum, downside_sum))])

\* np.cov(x, y)[0, 1] and np.var(y, ddof=1), on at least 2 observations.
Cov1(xs, ys) ==
    RDiv(RSum([k \in 1..Len(xs) |-> RMul(RSub(xs[k], Mean(xs)), RSub(ys[k], Mean(ys)))],
              1, Len(xs)),
         RInt(Len(xs) - 1))

\* benchmark_returns = None, and an array of benchmark returns.
NoBenchmarkReturns == [present |-> FALSE, values |-> <<>>]
BenchmarkReturns(values) == [present |-> TRUE, values |-> values]

\* negative_treynor
negative_treynor(a) ==
    IF ~a.benchmark_returns.present
    THEN Raised("ValueError")
    ELSE
    LET all_returns == MatrixDot(a.returns_matrix, a.weights)
        all_bench == a.benchmark_returns.values
        min_len == IF Len(all_returns) < Len(all_bench) THEN Len(all_returns) ELSE Len(all_bench)
        portfolio_returns == SubSeq(all_returns, 1, min_len)
        benchmark_returns == SubSeq(all_bench, 1, min_len)
    IN  IF min_len < 2
        THEN \* covariance and variance are 0/0, every comparison with nan is False
             Returned(NaN)
        ELSE LET covariance == Cov1(portfolio_returns, benchmark_returns)
                 benchmark_variance == Cov1(benchmark_returns, benchmark_returns)
                 beta == RDiv(covariance, benchmark_variance)
                 mean_return == RMul(Mean(portfolio_returns), RInt(a.annualization_factor))
             IN  IF benchmark_variance = Zero THEN Returned(Sentinel(1))
                 ELSE IF beta = Zero THEN Returned(Sentinel(1))
                 ELSE Returned([kind |-> "finite",
                                rational |-> RSub(Zero, RDiv(RSub(mean_return, a.risk_free_rate), beta))])

\* np.maximum.accumulate
RunningMax(xs) ==
    [k \in 1..Len(xs) |-> CHOOSE m \in {xs[j] : j \in 1..k} : \A j \in 1..k : RLeq(xs[j], m)]

\* negative_calmar, for period returns >= -1 (a wealth path that never goes
\* below 0) over at least one period.
negative_calmar(a) ==
    LET portfolio_returns == MatrixDot(a.returns_matrix, a.weights)
        cum_returns == CumProd(portfolio_returns)
        running_max == RunningMax(cum_returns)
        n == Len(cum_returns)
        drawdown == [k \in 1..n |-> RDiv(RSub(cum_returns[k], running_max[k]), running_max[k])]
        num_days == Len(portfolio_returns)
    IN  IF running_max[1] = Zero
        THEN \* the first period loses everything: drawdown is 0/0 throughout,
             \* max_drawdown and total_return are nan, no test is True
             Returned(NaN)
        ELSE IF \A k \in 1..n : drawdown[k] = Zero
        THEN Returned(Sentinel(-1))
        ELSE IF num_days * 1000000 < a.annualization_factor
        THEN \* years < 1e-6
             Returned(Sentinel(1))
        ELSE Returned(Finite)

\* The objective function optimize_portfolio selects for an objective name (lines
\* 368-399): an unknown name falls back to negative_sharpe.
ObjectiveFunction(objective) ==
    IF objective = "sharpe" THEN "negative_sharpe"
    ELSE IF objective = "min_vol" \/ objective = "min_volatility" THEN "portfolio_volatility"
    ELSE IF objective = "max_return" THEN "negative_return"
    ELSE IF objective = "kelly" THEN "kelly_criterion"
    ELSE IF objective = "sortino" THEN "negative_sortino"
    ELSE IF objective = "omega" THEN "negative_omega"
    ELSE IF objective = "calmar" THEN "negative_calmar"
    ELSE IF objective = "treynor" THEN "negative_treynor"
    ELSE "negative_sharpe"

\* obj_fun(weights, *args)
CallObjective(obj_fun, a) ==
    IF obj_fun = "negative_sharpe" THEN negative_sharpe(a)
    ELSE IF obj_fun = "portfolio_volatility" THEN portfolio_volatility(a)
    ELSE IF obj_fun = "negative_return" THEN negative_return(a)
    ELSE IF obj_fun = "kelly_criterion" THEN kelly_criterion(a)
    ELSE IF obj_fun = "negative_sortino" THEN negative_sortino(a)
    ELSE IF obj_fun = "negative_omega" THEN negative_omega(a)
    ELSE IF obj_fun = "negative_calmar" THEN negative_calmar(a)
    ELSE negative_treynor(a)

\* One evaluation of an objective function.
EvalObjective ==
    /\ obj_out.status = "pending"
    /\ obj_out' = CallObjective(obj_in.obj_fun, obj_in)
    /\ UNCHANGED <<obj_in, btVars, rbVars, apiVars, rngVars, lwVars, cvVars, stVars>>

\* ------------------------------------------- optimizer: ledoit_wolf_shrinkage

\* Floating-point numbers of MantissaBits significant bits: every arithmetic
\* result is rounded to the nearest such number, ties to even.  NaN is the pair
\* <<0, 0>>.
RECURSIVE Pow2(_)
Pow2(k) == IF k = 0 THEN 1 ELSE 2 * Pow2(k - 1)

NaNF == <<0, 0>>

\* The integer nearest to x >= 0, ties to even.
RoundHalfEven(x) ==
    LET q == x[1] \div x[2]
        r == x[1] % x[2]
    IN  IF 2 * r < x[2] THEN q
        ELSE IF 2 * r > x[2] THEN q + 1
        ELSE IF q % 2 = 0 THEN q
        ELSE q + 1

\* n / d > 0 rounded: scaled by powers of 2 until it lies in
\* [2^(MantissaBits-1), 2^MantissaBits), rounded to an integer, scaled back by
\* up / down.
RECURSIVE FlPos(_, _, _, _)
FlPos(n, d, up, down) ==
    IF n >= Pow2(MantissaBits) * d THEN FlPos(n, 2 * d, 2 * up, down)
    ELSE IF n < Pow2(MantissaBits - 1) * d THEN FlPos(2 * n, d, up, 2 * down)
    ELSE Rat(RoundHalfEven(<<n, d>>) * up, down)

\* n / d * up / down rounded, of either sign.
FlSigned(n, d, up, down) ==
    IF n = 0 THEN Zero
    ELSE IF n < 0 THEN RSub(Zero, FlPos(-n, d, up, down))
    ELSE FlPos(n, d, up, down)

Fl(x) == FlSigned(x[1], x[2], 1, 1)

\* The four operations on floats x and y, each rounded once.  The denominators
\* of floats are powers of 2, so the larger one is a common denominator.
FAdd(x, y) ==
    LET common == IF x[2] >= y[2] THEN x[2] ELSE y[2]
    IN  FlSigned(x[1] * (common \div x[2]) + y[1] * (common \div y[2]), common, 1, 1)
FSub(x, y) == FAdd(x, <<-y[1], y[2]>>)
FMul(x, y) == FlSigned(x[1] * y[1], x[2], 1, y[2])
FDiv(x, y) ==
    IF y[1] < 0 THEN FlSigned(-x[1], -y[1], y[2], x[2])
    ELSE FlSigned(x[1], y[1], y[2], x[2])

\* np.sqrt(n / d), n / d > 0: the float nearest to the root.
RECURSIVE FSqrtPos(_, _, _, _)
FSqrtPos(n, d, up, down) ==
    LET lo == Pow2(MantissaBits - 1)
        hi == Pow2(MantissaBits)
    IN  IF n >= hi * hi * d THEN FSqrtPos(n, 4 * d, 2 * up, down)
        ELSE IF n < lo * lo * d THEN FSqrtPos(4 * n, d, up, 2 * down)
        ELSE LET m == CHOOSE k \in lo..(hi - 1) :
                          k * k * d <= n /\ n < (k + 1) * (k + 1) * d
             IN  IF (2 * m + 1) * (2 * m + 1) * d <= 4 * n
                 THEN Rat((m + 1) * up, down) ELSE Rat(m * up, down)
FSqrt(x) == IF x[1] = 0 THEN Zero ELSE FSqrtPos(x[1], x[2], 1, 1)

\* A running "+=": the terms f[lo..hi] added to acc one after the other.
RECURSIVE FSumFrom(_, _, _, _)
FSumFrom(acc, f, lo, hi) ==
    IF lo > hi THEN acc
    ELSE CHOOSE out \in {FSumFrom(next, f, lo + 1, hi) : next \in {FAdd(acc, f[lo])}} :
             TRUE
FSum(f, lo, hi) == FSumFrom(Zero, f, lo, hi)

\* np.sum of n terms, as numpy adds them: under 8 terms one after the other;
\* otherwise 8 running sums r[1..8] over the blocks of 8 terms, combined as
\* ((r1+r2)+(r3+r4))+((r5+r6)+(r7+r8)), then the terms left over.
NumpySum(f, n) ==
    IF n < 8 THEN FSum(f, 1, n)
    ELSE LET blocks == n \div 8
             r == [j \in 1..8 |->
                      FSumFrom(f[j], [b \in 1..(blocks - 1) |-> f[j + 8 * b]],
                               1, blocks - 1)]
         IN  FSumFrom(FAdd(FAdd(FAdd(r[1], r[2]), FAdd(r[3], r[4])),
                           FAdd(FAdd(r[5], r[6]), FAdd(r[7], r[8]))),
                      f, 8 * blocks + 1, n)

ShrinkIndex == 1..ShrinkAssets

\* np.sum over an N x N matrix.
MatrixSum(m) ==
    NumpySum([k \in 1..(ShrinkAssets * ShrinkAssets) |->
                 m[((k - 1) \div ShrinkAssets) + 1][((k - 1) % ShrinkAssets) + 1]],
             ShrinkAssets * ShrinkAssets)

\* A matrix of NaN.
NaNMatrix == [i \in ShrinkIndex |-> [j \in ShrinkIndex |-> NaNF]]

\* returns.mean(): NaN without a row.
ShrinkMean(returns) ==
    [j \in ShrinkIndex |->
        IF Len(returns) = 0 THEN NaNF
        ELSE FDiv(FSum([t \in 1..Len(returns) |-> returns[t][j]], 1, Len(returns)),
                  RInt(Len(returns)))]

\* r_t - returns.mean() (line 52).
Centered(returns, mean, t) ==
    [j \in ShrinkIndex |-> FSub(returns[t][j], mean[j])]

\* The sum of products of deviations of columns i and j that returns.cov() and
\* returns.corr() are made of.
CrossSum(returns, mean, i, j) ==
    FSum([t \in 1..Len(returns) |->
             FMul(FSub(returns[t][i], mean[i]), FSub(returns[t][j], mean[j]))],
         1, Len(returns))

\* Line 30, returns.cov() (divisor T - 1): all NaN with fewer than 2 rows.
FloatCov(returns, mean) ==
    IF Len(returns) < 2 THEN NaNMatrix
    ELSE [i \in ShrinkIndex |-> [j \in ShrinkIndex |->
             FDiv(CrossSum(returns, mean, i, j), RInt(Len(returns) - 1))]]

\* Line 38, returns.corr(): NaN (0/0) in the row and column of a column that
\* never moves, all NaN with fewer than 2 rows.
FloatCorr(returns, mean) ==
    IF Len(returns) < 2 THEN NaNMatrix
    ELSE [i \in ShrinkIndex |-> [j \in ShrinkIndex |->
             \* one evaluation of each sum
             CHOOSE corr \in
                 {IF sii = Zero \/ sjj = Zero THEN NaNF
                  ELSE FDiv(sij, FSqrt(FMul(sii, sjj))) :
                  sii \in {CrossSum(returns, mean, i, i)},
                  sjj \in {CrossSum(returns, mean, j, j)},
                  sij \in {CrossSum(returns, mean, i, j)}} : TRUE]]

HasNaN(m) == \E i, j \in ShrinkIndex : m[i][j] = NaNF

\* np.sum((a - b) ** 2): NaN as soon as an entry is.
SquaredDistance(a, b) ==
    IF HasNaN(a) \/ HasNaN(b) THEN NaNF
    ELSE MatrixSum([i \in ShrinkIndex |-> [j \in ShrinkIndex |->
                      FMul(FSub(a[i][j], b[i][j]), FSub(a[i][j], b[i][j]))]])

\* Line 62.  "delta_den > 0" is False for NaN and for 0; max(0, NaN) is 0.
ShrinkageIntensity_Unclamped(delta_num, delta_den) ==
    IF delta_den # NaNF /\ RLt(Zero, delta_den) /\ delta_num # NaNF
    THEN FDiv(delta_num, delta_den) ELSE Zero
ShrinkageIntensity(delta_num, delta_den) ==
    IF delta_den # NaNF /\ RLt(Zero, delta_den)
    THEN IF delta_num = NaNF THEN Zero
         ELSE RMin(One, RMax(Zero, FDiv(delta_num, delta_den)))
    ELSE Zero

\* Line 65 for one entry: delta * target + (1 - delta) * sample.
Blend(delta, target, sample) ==
    IF target = NaNF \/ sample = NaNF THEN NaNF
    ELSE FAdd(FMul(delta, target), FMul(FSub(One, delta), sample))

\* Line 39: the mean of the off-diagonal correlations.
MeanCorr(sample_corr) ==
    IF HasNaN(sample_corr) THEN NaNF
    ELSE FDiv(FSub(MatrixSum(sample_corr), RInt(ShrinkAssets)),
              RInt(ShrinkAssets * (ShrinkAssets - 1)))

\* Lines 42-44: the constant-correlation target, the sample variances on its
\* diagonal.
ShrinkTarget(mean_corr, sample_cov) ==
    LET std_devs == [i \in ShrinkIndex |->
                        IF sample_cov[i][i] = NaNF THEN NaNF
                        ELSE FSqrt(sample_cov[i][i])]
    IN  [i \in ShrinkIndex |-> [j \in ShrinkIndex |->
            IF i = j THEN sample_cov[i][i]
            ELSE IF mean_corr = NaNF \/ std_devs[i] = NaNF \/ std_devs[j] = NaNF
                 THEN NaNF
            ELSE FMul(mean_corr, FMul(std_devs[i], std_devs[j]))]]

\* The locals of ledoit_wolf_shrinkage before line 27.
LWLocals0 == [pc |-> "mean", t |-> 0, mean |-> <<>>, sample_cov |-> <<>>,
              sample_corr |-> <<>>, target |-> <<>>,
              delta_num |-> Zero, delta_den |-> Zero]

\* returns.mean(), the column means that returns.cov(), returns.corr() and
\* line 52 all start from.
LWMean ==
    /\ lw.pc = "mean"
    /\ lw' = [lw EXCEPT !.pc = "cov", !.mean = ShrinkMean(lw_in)]
    /\ UNCHANGED <<lw_in, lw_out, btVars, rbVars, objVars, apiVars, rngVars, cvVars, stVars>>

\* Lines 27-33: the sample covariance.
LWCov ==
    /\ lw.pc = "cov"
    /\ lw' = [lw EXCEPT !.pc = "corr", !.sample_cov = FloatCov(lw_in, lw.mean)]
    /\ UNCHANGED <<lw_in, lw_out, btVars, rbVars, objVars, apiVars, rngVars, cvVars, stVars>>

\* Line 38: the sample correlation.
LWCorr ==
    /\ lw.pc = "corr"
    /\ lw' = [lw EXCEPT !.pc = "target", !.sample_corr = FloatCorr(lw_in, lw.mean)]
    /\ UNCHANGED <<lw_in, lw_out, btVars, rbVars, objVars, apiVars, rngVars, cvVars, stVars>>

\* Lines 39-49: the target.
LWTarget ==
    /\ lw.pc = "target"
    /\ \E mean_corr \in {MeanCorr(lw.sample_corr)} :
         lw' = [lw EXCEPT !.pc = "loop",
                          !.target = ShrinkTarget(mean_corr, lw.sample_cov)]
    /\ UNCHANGED <<lw_in, lw_out, btVars, rbVars, objVars, apiVars, rngVars, cvVars, stVars>>

\* Lines 51-56, one row t of the loop.
LWRow ==
    /\ lw.pc = "loop"
    /\ lw.t < Len(lw_in)
    /\ \E distance \in
           {SquaredDistance(
                [i \in ShrinkIndex |-> [j \in ShrinkIndex |->
                    FMul(Centered(lw_in, lw.mean, lw.t + 1)[i],
                         Centered(lw_in, lw.mean, lw.t + 1)[j])]],
                lw.sample_cov)} :
         lw' = [lw EXCEPT
                  !.t = lw.t + 1,
                  !.delta_num = IF distance = NaNF \/ lw.delta_num = NaNF THEN NaNF
                                ELSE FAdd(lw.delta_num, distance)]
    /\ UNCHANGED <<lw_in, lw_out, btVars, rbVars, objVars, apiVars, rngVars, cvVars, stVars>>

\* Lines 58-67.  Without a row delta_num is still the int 0 of line 48 and T is
\* 0: "delta_num /= T" raises ZeroDivisionError.
LWFinish ==
    /\ lw.pc = "loop"
    /\ lw.t = Len(lw_in)
    /\ IF Len(lw_in) = 0
       THEN /\ lw' = [lw EXCEPT !.pc = "done"]
            /\ lw_out' = Raised("ZeroDivisionError")
       ELSE \E delta_num \in {IF lw.delta_num = NaNF THEN NaNF
                               ELSE FDiv(lw.delta_num, RInt(Len(lw_in)))},
               delta_den \in {SquaredDistance(lw.sample_cov, lw.target)} :
            \E delta \in {ShrinkageIntensity(delta_num, delta_den)} :
              /\ lw' = [lw EXCEPT !.pc = "done", !.delta_num = delta_num,
                                  !.delta_den = delta_den]
              /\ lw_out' =
                   [status |-> "returned",
                    shrunk_cov |->
                        [i \in ShrinkIndex |-> [j \in ShrinkIndex |->
                            Blend(delta, lw.target[i][j], lw.sample_cov[i][j])]],
                    delta |-> delta]
    /\ UNCHANGED <<lw_in, btVars, rbVars, objVars, apiVars, rngVars, cvVars, stVars>>

\* ------------------------------------------------------ optimizer: solver

\* scipy.optimize.minimize(method='SLSQP') is a library call.  The model takes
\* from its contract: the candidate weight vectors are the vectors with entries
\* k/WeightSteps; a run that reports success returns a vector that meets the
\* bounds and every equality constraint, and for the convex objectives
\* (portfolio_volatility, negative_return) one that no such vector improves on; a
\* run that reports failure returns its last iterate, which need not meet the
\* constraints.  Any run may fail.
WeightGrid == [Tickers -> {Rat(k, WeightSteps) : k \in 0..WeightSteps}]

InBounds(x, min_weight, max_weight) ==
    \A t \in Tickers : RLeq(min_weight, x[t]) /\ RLeq(x[t], max_weight)

\* The constraint {'type': 'eq', 'fun': lambda x: np.sum(x) - 1}.
SumsToOne(x) == RSum(x, 1, NumAssets) = One

\* No target return, and the constraint np.sum(mean_returns * x) * A - tr = 0.
NoTarget == [present |-> FALSE, value |-> Zero]
Target(tr) == [present |-> TRUE, value |-> tr]

PortfolioReturn(x, mean_returns, annualization_factor) ==
    RMul(Dot(mean_returns, x), RInt(annualization_factor))

FeasibleWeights(p) ==
    {x \in WeightGrid :
        /\ InBounds(x, p.min_weight, p.max_weight)
        /\ SumsToOne(x)
        /\ p.target.present =>
              PortfolioReturn(x, p.mean_returns, p.annualization_factor) = p.target.value}

\* What the solver minimizes at x: the squared volatility, minus the return, or
\* an objective of which the model assumes nothing (every feasible vector may
\* be where the solver stops).
Score_Indifferent(p, x) == Zero
Score(p, x) ==
    IF p.obj_fun = "portfolio_volatility" THEN QuadForm(x, p.cov_matrix)
    ELSE IF p.obj_fun = "negative_return" THEN RSub(Zero, Dot(p.mean_returns, x))
    ELSE Zero

\* The feasible vectors a successful run may return.
SolverOptima(p) ==
    UNION {{s[1] : s \in {s \in scored : \A t \in scored : RLeq(s[2], t[2])}} :
             scored \in {{<<x, Score(p, x)>> : x \in FeasibleWeights(p)}}}

\* initial_guess = num_assets * [1. / num_assets,]
InitialGuess == [t \in Tickers |-> Rat(1, NumAssets)]

\* The last iterate of a failed run: the initial guess, or the vector that
\* sits at the lower or at the upper bound in every coordinate.
FailureIterates(p) ==
    {InitialGuess, [t \in Tickers |-> p.min_weight], [t \in Tickers |-> p.max_weight]}

\* One run of minimize(...) after `failures` runs of this request have failed on
\* a problem that has a solution: result.x, result.success and result.message,
\* and the new count.  A problem without a solution fails; one with a solution
\* may fail too, MaxFailures times a request at most.
minimize(p, failures) ==
    UNION {
        {[result |-> [x |-> x, success |-> TRUE,
                      message |-> "Optimization terminated successfully"],
          failures |-> failures] : x \in optima}
        \cup
        {[result |-> [x |-> x, success |-> FALSE, message |-> "Iteration limit reached"],
          failures |-> IF optima = {} THEN failures ELSE failures + 1] :
            x \in IF optima = {} \/ failures < MaxFailures THEN FailureIterates(p) ELSE {}}
        : optima \in {SolverOptima(p)}}

\* --------------------------------------------------- optimize_portfolio

\* The covariance of lines 334-342: with fewer than 20 assets, as throughout the
\* model, the sample covariance.
CovMatrix(returns) == SampleCov(returns)

\* benchmark_prices.pct_change().dropna() restricted to common_index (lines
\* 350-357), in the order of the portfolio's return dates.
AlignedRows(asset_returns, benchmark_prices) ==
    SelectSeq([k \in 1..Len(asset_returns.index) |-> k],
              LAMBDA k : asset_returns.index[k] \in BenchReturnDates(benchmark_prices))

\* Lines 330-399: the objective function and its arguments, and the solver's
\* problem.  a is the call's arguments.
OptimizeProblem(a) ==
    LET returns == AssetReturns(a.prices)
        rows == IF a.benchmark_prices.present
                THEN AlignedRows(returns, a.benchmark_prices)
                ELSE [k \in 1..Len(returns.index) |-> k]
    IN  [obj_fun |-> ObjectiveFunction(a.objective),
         mean_returns |-> MeanReturns(returns.rows),
         cov_matrix |-> CovMatrix(returns.rows),
         risk_free_rate |-> a.risk_free_rate,
         annualization_factor |-> a.annualization_factor,
         returns_matrix |-> [k \in 1..Len(rows) |-> returns.rows[rows[k]]],
         benchmark_returns |->
             IF a.benchmark_prices.present
             THEN BenchmarkReturns([k \in 1..Len(rows) |->
                      BenchReturnOn(a.benchmark_prices, returns.index[rows[k]])])
             ELSE NoBenchmarkReturns,
         mar |-> a.mar,
         min_weight |-> a.min_weight,
         max_weight |-> a.max_weight,
         target |-> NoTarget]

\* Line 391: the one error optimize_portfolio raises itself.
TreynorNeedsBenchmark_Never(a) == FALSE
TreynorNeedsBenchmark(a) == a.objective = "treynor" /\ ~a.benchmark_prices.present

\* Lines 401-419: the result built from the solver's result, success or not.
OptimizationResult_RaiseOnFailure(p, result) ==
    IF ~result.success THEN Raised("RuntimeError")
    ELSE [status |-> "returned", weights |-> result.x,
          metrics |-> [expected_return |-> Zero, volatility |-> Sqrt(Zero), sharpe_ratio |-> NaN],
          success |-> TRUE, message |-> result.message]
OptimizationResult(p, result) ==
    LET perf == calculate_portfolio_performance(
                    result.x, p.mean_returns, p.cov_matrix, p.risk_free_rate, p.annualization_factor)
    IN  [status |-> "returned",
         weights |-> result.x,
         metrics |-> [expected_return |-> perf.returns,
                      volatility |-> perf.std,
                      sharpe_ratio |-> perf.sharpe],
         success |-> result.success,
         message |-> result.message]

\* The outcomes of optimize_portfolio(a): what the call produces, with the number
\* of solver runs made and the solver's run.
optimize_portfolio(a, failures) ==
    IF TreynorNeedsBenchmark(a)
    THEN {[out |-> Raised("ValueError"), solver_runs |-> 0, result |-> Idle,
           failures |-> failures]}
    ELSE UNION {{[out |-> OptimizationResult(p, run.result), solver_runs |-> 1,
                  result |-> run.result, failures |-> run.failures] :
                    run \in minimize(p, failures)} : p \in {OptimizeProblem(a)}}

\* ----------------------------------------------- calculate_efficient_frontier

\* None, and a portfolio entry of the result.
NoPortfolio == [present |-> FALSE]
PortfolioEntry(weights, perf) ==
    [present |-> TRUE, volatility |-> perf.std, return |-> perf.returns,
     sharpe_ratio |-> perf.sharpe, weights |-> weights]

\* The solver's problem of the frontier: minimum volatility (GMVP and sweep) or
\* maximum return, under the caller's bounds, with or without a target return.
FrontierProblem(e, obj_fun, target) ==
    [obj_fun |-> obj_fun,
     mean_returns |-> e.mean_returns,
     cov_matrix |-> e.cov_matrix,
     risk_free_rate |-> e.args.risk_free_rate,
     annualization_factor |-> e.args.annualization_factor,
     min_weight |-> e.args.min_weight,
     max_weight |-> e.args.max_weight,
     target |-> target]

FrontierPerformance(e, x) ==
    calculate_portfolio_performance(
        x, e.mean_returns, e.cov_matrix, e.args.risk_free_rate, e.args.annualization_factor)

\* np.linspace(lo, hi, n), n >= 2.
Linspace(lo, hi, n) ==
    [i \in 1..n |-> RAdd(lo, RDiv(RMul(RInt(i - 1), RSub(hi, lo)), RInt(n - 1)))]

\* np.searchsorted(xs, v): the number of leading entries below v.
RECURSIVE SearchSorted(_, _)
SearchSorted(xs, v) ==
    IF xs = <<>> \/ ~RLt(Head(xs), v) THEN 0 ELSE 1 + SearchSorted(Tail(xs), v)

\* np.insert(xs, idx, v)
Insert(xs, idx, v) == SubSeq(xs, 1, idx) \o <<v>> \o SubSeq(xs, idx + 1, Len(xs))

\* Lines 531-539: the grid of target returns, with the GMVP's return inserted
\* when the grid lacks it.
TargetReturns(min_return, max_return, min_variance_portfolio) ==
    LET target_returns == Linspace(min_return, max_return, NumTargets)
    IN  IF min_variance_portfolio.present
           /\ min_variance_portfolio.return \notin SeqToSet(target_returns)
        THEN Insert(target_returns,
                    SearchSorted(target_returns, min_variance_portfolio.return),
                    min_variance_portfolio.return)
        ELSE target_returns

\* Line 563: a sweep point is recorded when its solve succeeded.
KeepPoint_Always(result) == TRUE
KeepPoint(result) == result.success

\* a > b for two float quotients num/sqrt(den): False when either is nan.
RECURSIVE FracLess(_, _, _, _)
FracLess(a, b, c, d) ==
    \* a/b < c/d for a, c >= 0 and b, d > 0, without forming products
    IF a \div b # c \div d THEN a \div b < c \div d
    ELSE IF c % d = 0 THEN FALSE
    ELSE IF a % b = 0 THEN TRUE
    ELSE FracLess(d, c % d, b, a % b)

\* x^2 * q < y^2 * r for positive rationals x, y, q, r.
SquareLess(x, q, y, r) ==
    LET u == RDiv(x, y)
        v == RDiv(r, q)
    IN  FracLess(u[1] * u[1], u[2] * u[2], v[1], v[2])

Greater(s, t) ==
    IF s.kind = "nan" \/ t.kind = "nan" THEN FALSE
    ELSE IF s.kind = "inf" THEN t.kind # "inf"
    ELSE IF s.kind = "-inf" THEN FALSE
    ELSE IF t.kind = "inf" THEN FALSE
    ELSE IF t.kind = "-inf" THEN TRUE
    ELSE IF Sign(s.num) # Sign(t.num) THEN Sign(s.num) > Sign(t.num)
    ELSE IF Sign(s.num) = 0 THEN FALSE
    ELSE IF Sign(s.num) > 0
    THEN \* t.num^2 / t.sqrt_of < s.num^2 / s.sqrt_of
         SquareLess(RAbs(t.num), s.sqrt_of, RAbs(s.num), t.sqrt_of)
    ELSE SquareLess(RAbs(s.num), t.sqrt_of, RAbs(t.num), s.sqrt_of)

\* max(frontier_points, key=lambda x: x['sharpe_ratio']): the first point that
\* no later point beats.
RECURSIVE MaxSharpe(_, _)
MaxSharpe(best, points) ==
    IF points = <<>> THEN best
    ELSE IF Greater(Head(points).sharpe_ratio, best.sharpe_ratio)
    THEN MaxSharpe(Head(points), Tail(points))
    ELSE MaxSharpe(best, Tail(points))

\* Lines 581-599.
OptimalPortfolio(e) ==
    IF e.args.optimal_weights.present
    THEN PortfolioEntry(e.args.optimal_weights.weights,
                        FrontierPerformance(e, WeightVector(e.args.optimal_weights.weights)))
    ELSE IF e.frontier_points # <<>>
    THEN MaxSharpe(Head(e.frontier_points), Tail(e.frontier_points))
    ELSE NoPortfolio

\* Lines 433-502 and 531-539: returns, mean, covariance; the global minimum
\* variance portfolio; the maximum achievable return; the target grid.
EfSetup ==
    /\ ef.pc = "call"
    /\ \E returns \in {AssetReturns(ef.args.prices)} :
       \E e \in {[args |-> ef.args,
                  mean_returns |-> MeanReturns(returns.rows),
                  cov_matrix |-> CovMatrix(returns.rows)]} :
       \E gmvp_run \in minimize(FrontierProblem(e, "portfolio_volatility", NoTarget),
                                 api.failures) :
       \E max_ret_run \in minimize(FrontierProblem(e, "negative_return", NoTarget),
                                    gmvp_run.failures) :
         LET gmvp_result == gmvp_run.result
             max_ret_result == max_ret_run.result
             min_variance_portfolio ==
                 IF gmvp_result.success
                 THEN PortfolioEntry(gmvp_result.x, FrontierPerformance(e, gmvp_result.x))
                 ELSE NoPortfolio
             \* on failure: the return of the initial guess, equal weights
             min_return ==
                 IF gmvp_result.success THEN min_variance_portfolio.return
                 ELSE PortfolioReturn(InitialGuess, e.mean_returns, e.args.annualization_factor)
             max_return ==
                 PortfolioReturn(max_ret_result.x, e.mean_returns, e.args.annualization_factor)
         IN  /\ ef' = [pc |-> "sweep",
                       args |-> e.args,
                       mean_returns |-> e.mean_returns,
                       cov_matrix |-> e.cov_matrix,
                       min_variance_portfolio |-> min_variance_portfolio,
                       target_returns |->
                           TargetReturns(min_return, max_return, min_variance_portfolio),
                       i |-> 1,
                       solved |-> <<>>,
                       frontier_points |-> <<>>]
             /\ api' = [api EXCEPT !.solver_runs = api.solver_runs + 2,
                                   !.failures = max_ret_run.failures]
    /\ UNCHANGED <<efficient_frontier_data, optimization_result, response, btVars, rbVars, objVars, rngVars, lwVars, cvVars, stVars>>

\* Lines 544-577, one target of the sweep: minimum volatility at that return.
\* solved keeps result.success of each target's solve.
EfTarget ==
    /\ ef.pc = "sweep"
    /\ ef.i <= Len(ef.target_returns)
    /\ \E run \in minimize(FrontierProblem(ef, "portfolio_volatility",
                                           Target(ef.target_returns[ef.i])), api.failures) :
         /\ ef' = [ef EXCEPT
                     !.i = ef.i + 1,
                     !.solved = Append(ef.solved, run.result.success),
                     !.frontier_points =
                         IF KeepPoint(run.result)
                         THEN Append(ef.frontier_points,
                                     PortfolioEntry(run.result.x,
                                                    FrontierPerformance(ef, run.result.x)))
                         ELSE ef.frontier_points]
         /\ api' = [api EXCEPT !.solver_runs = api.solver_runs + 1,
                               !.failures = run.failures]
    /\ UNCHANGED <<efficient_frontier_data, optimization_result, response, btVars, rbVars, objVars, rngVars, lwVars, cvVars, stVars>>

\* np.random.random(): the n-th number of the global generator's stream, in
\* (0, 1).
Uniform(n) == Rat(1 + (n % RandomLevels), RandomLevels + 1)

MonteCarloPoints_Unscaled(e, state) ==
    [i \in 1..NumSimulations |->
        LET drawn == [t \in Tickers |-> Uniform(state + (i - 1) * NumAssets + (t - 1))]
        IN  PortfolioEntry(drawn, FrontierPerformance(e, drawn))]

\* Lines 608-626: num_simulations weight vectors drawn from the global generator
\* in state `state`, each divided by its sum, with their performance.
MonteCarloPoints(e, state) ==
    [i \in 1..NumSimulations |->
        LET drawn == [t \in Tickers |-> Uniform(state + (i - 1) * NumAssets + (t - 1))]
            total == RSum(drawn, 1, NumAssets)
            weights_sim == [t \in Tickers |-> RDiv(drawn[t], total)]
        IN  PortfolioEntry(weights_sim, FrontierPerformance(e, weights_sim))]

\* optimal_portfolio["volatility"] * 1.5
TimesOneAndHalf(vol) == Sqrt(RMul(Rat(9, 4), vol.sqrt_of))

\* risk_free_rate + sharpe_ratio * (volatility * 1.5) for the Sharpe ratio and the
\* volatility of one portfolio: the ratio is (return - risk_free_rate) / volatility
\* where the volatility is not zero, and infinite or nan, and so is the product
\* nan, where it is zero.
CmlReturn(risk_free_rate, p) ==
    IF p.sharpe_ratio.kind = "finite"
    THEN [kind |-> "finite", value |-> RAdd(risk_free_rate, RMul(Rat(3, 2), p.sharpe_ratio.num))]
    ELSE NaN

\* Lines 628-635: the capital market line.
CmlPoints_TwiceOut(optimal_portfolio, risk_free_rate) ==
    IF optimal_portfolio.present
    THEN <<[volatility |-> Sqrt(Zero), return |-> [kind |-> "finite", value |-> risk_free_rate]],
           [volatility |-> optimal_portfolio.volatility,
            return |-> [kind |-> "finite", value |-> optimal_portfolio.return]],
           [volatility |-> Sqrt(RMul(RInt(4), optimal_portfolio.volatility.sqrt_of)),
            return |-> CmlReturn(risk_free_rate, optimal_portfolio)]>>
    ELSE <<>>
CmlPoints(optimal_portfolio, risk_free_rate) ==
    IF optimal_portfolio.present
    THEN <<[volatility |-> Sqrt(Zero), return |-> [kind |-> "finite", value |-> risk_free_rate]],
           [volatility |-> optimal_portfolio.volatility,
            return |-> [kind |-> "finite", value |-> optimal_portfolio.return]],
           [volatility |-> TimesOneAndHalf(optimal_portfolio.volatility),
            return |-> CmlReturn(risk_free_rate, optimal_portfolio)]>>
    ELSE <<>>

\* Lines 581-662: the optimal portfolio, the Monte Carlo portfolios and the
\* result.  Of the result the model keeps frontier_points, optimal_portfolio,
\* min_variance_portfolio, monte_carlo_points and cml_points.  The draws advance the global
\* generator.
EfReturn ==
    /\ ef.pc = "sweep"
    /\ ef.i > Len(ef.target_returns)
    /\ ef' = [ef EXCEPT !.pc = "done"]
    /\ efficient_frontier_data' =
         [status |-> "returned",
          frontier_points |-> ef.frontier_points,
          optimal_portfolio |-> OptimalPortfolio(ef),
          min_variance_portfolio |-> ef.min_variance_portfolio,
          monte_carlo_points |-> MonteCarloPoints(ef, np_random),
          cml_points |-> CmlPoints(OptimalPortfolio(ef), ef.args.risk_free_rate)]
    /\ np_random' = np_random + NumSimulations * NumAssets
    /\ ef_calls' = Append(ef_calls, [args |-> ef.args,
                                     monte_carlo_points |-> MonteCarloPoints(ef, np_random)])
    /\ UNCHANGED <<api, optimization_result, response, btVars, rbVars, objVars, lwVars, cvVars, stVars>>

\* A caller calls calculate_efficient_frontier again with the arguments of the
\* call that has just returned.
EfCallAgain ==
    /\ ef.pc = "done"
    /\ Len(ef_calls) < MaxCalls
    /\ ef' = [pc |-> "call", args |-> ef.args]
    /\ efficient_frontier_data' = Pending
    /\ UNCHANGED <<api, optimization_result, response, np_random, ef_calls,
                   btVars, rbVars, objVars, lwVars, cvVars, stVars>>

\* ------------------------------------------------------ POST /api/optimize

HttpError(status_code, detail) == [status |-> "sent", status_code |-> status_code, detail |-> detail]

\* InputValidator.validate_weight_constraints
ValidWeightConstraints(min_weight, max_weight) ==
    /\ RLeq(Zero, min_weight) /\ RLeq(min_weight, One)
    /\ RLeq(Zero, max_weight) /\ RLeq(max_weight, One)
    /\ RLt(min_weight, max_weight)

\* InputValidator.validate_objective and validate_frequency
ValidObjectives == {"sharpe", "min_volatility", "max_return", "sortino", "calmar", "treynor"}
ValidFrequencies == {"daily", "monthly"}

\* Lines 75-80: the detail of the first check that fails, "" when all pass.  The
\* ticker symbols are not modelled, only whether validate_tickers accepts them.
ValidationFailure(r) ==
    IF ~r.tickers_valid THEN "Invalid tickers"
    ELSE IF ~ValidWeightConstraints(r.min_weight, r.max_weight) THEN "Invalid weight constraints"
    ELSE IF r.initial_capital <= 0 THEN "Initial capital must be positive"
    ELSE IF RLt(r.mar, RInt(-1)) \/ RLt(RInt(10), r.mar) THEN "MAR must be between -100% and +1000%"
    ELSE IF r.objective \notin ValidObjectives THEN "Invalid objective"
    ELSE IF r.frequency \notin ValidFrequencies THEN "Invalid frequency"
    ELSE ""

\* Lines 83-88.
AnnualizationFactor(frequency) == IF frequency = "monthly" THEN 12 ELSE 252

\* Lines 74-124: validation, price data, risk-free rate, benchmark.  An
\* HTTPException raised inside the try block is not a ValueError: the handler
\* "except Exception" of line 213 catches it and answers 500; a ValueError
\* (fetch_historical_data raises nothing else) is answered 400 at line 211.
ApiReceive ==
    /\ api.pc = "received"
    /\ LET r == api.request
           m == api.market
       IN  IF ValidationFailure(r) # ""
           THEN /\ response' = HttpError(500, ValidationFailure(r))
                /\ api' = [api EXCEPT !.pc = "done"]
           ELSE IF ~m.prices_found
           THEN /\ response' = HttpError(400, "Failed to fetch market data")
                /\ api' = [api EXCEPT !.pc = "done"]
           ELSE IF Len0(m.prices) < MinDays
           THEN /\ response' = HttpError(500, "Insufficient data")
                /\ api' = [api EXCEPT !.pc = "done"]
           ELSE /\ response' = response
                /\ api' = [api EXCEPT
                     !.pc = "optimize",
                     !.prices = m.prices,
                     !.rf_rate = m.rf_rate,
                     !.annualization_factor = AnnualizationFactor(r.frequency),
                     \* an empty benchmark series is passed on as None
                     !.benchmark_prices =
                         IF Len(m.benchmark_data.index) = 0 THEN NoBenchmark ELSE m.benchmark_data]
    /\ UNCHANGED <<optimization_result, efVars, btVars, rbVars, objVars, rngVars, lwVars, cvVars, stVars>>

\* The arguments main passes to optimize_portfolio (lines 127-136).
OptimizeArgs(a) ==
    [prices |-> a.prices, objective |-> a.request.objective, risk_free_rate |-> a.rf_rate,
     min_weight |-> a.request.min_weight, max_weight |-> a.request.max_weight,
     annualization_factor |-> a.annualization_factor, mar |-> a.request.mar,
     benchmark_prices |-> a.benchmark_prices]

\* Line 147.
IsSharpe_Never(objective) == FALSE
IsSharpe(objective) == objective = "sharpe"

\* Lines 127-159: optimize_portfolio, the rejection of a result without success,
\* and the call of calculate_efficient_frontier.
ApiOptimize ==
    /\ api.pc = "optimize"
    /\ \E o \in optimize_portfolio(OptimizeArgs(api), api.failures) :
         /\ optimization_result' = o.out
         /\ IF o.out.status = "raised"
            THEN /\ response' = HttpError(400, "Treynor optimization requires benchmark_prices parameter")
                 /\ api' = [api EXCEPT !.pc = "done", !.solver_runs = o.solver_runs,
                                       !.result = o.result, !.failures = o.failures]
                 /\ ef' = ef
            ELSE IF ~o.out.success
            THEN /\ response' = HttpError(500, "Optimization failed")
                 /\ api' = [api EXCEPT !.pc = "done", !.solver_runs = o.solver_runs,
                                       !.result = o.result, !.failures = o.failures]
                 /\ ef' = ef
            ELSE /\ response' = response
                 /\ api' = [api EXCEPT !.pc = "frontier", !.solver_runs = o.solver_runs,
                                       !.result = o.result, !.failures = o.failures]
                 /\ ef' = [pc |-> "call",
                           args |-> [prices |-> api.prices,
                                     optimal_weights |->
                                         IF IsSharpe(api.request.objective)
                                         THEN [present |-> TRUE, weights |-> o.out.weights]
                                         ELSE [present |-> FALSE],
                                     risk_free_rate |-> api.rf_rate,
                                     min_weight |-> api.request.min_weight,
                                     max_weight |-> api.request.max_weight,
                                     annualization_factor |-> api.annualization_factor,
                                     benchmark_prices |-> api.benchmark_prices]]
    /\ UNCHANGED <<efficient_frontier_data, btVars, rbVars, objVars, rngVars, lwVars, cvVars, stVars>>

\* Lines 164-171: with objective sharpe the frontier's optimal portfolio is
\* replaced by the optimization's weights and metrics.
ForceConsistency(frontier, optimization, objective) ==
    IF IsSharpe(objective)
    THEN [frontier EXCEPT !.optimal_portfolio =
            [present |-> TRUE,
             return |-> optimization.metrics.expected_return,
             volatility |-> optimization.metrics.volatility,
             sharpe_ratio |-> optimization.metrics.sharpe_ratio,
             weights |-> optimization.weights]]
    ELSE frontier

\* Lines 161-187: the override, and the call of run_backtest on the benchmark
\* series fetched again (the market data is the same).
ApiBacktest ==
    /\ api.pc = "frontier"
    /\ ef.pc = "done"
    /\ efficient_frontier_data' =
         ForceConsistency(efficient_frontier_data, optimization_result, api.request.objective)
    /\ bt_in' = [prices |-> api.prices, weights |-> optimization_result.weights,
                 benchmark_data |-> api.market.benchmark_data,
                 initial_capital |-> api.request.initial_capital,
                 rebalance_freq |-> api.request.rebalance_freq]
    /\ bt_out' = Pending
    /\ api' = [api EXCEPT !.pc = "backtest"]
    /\ UNCHANGED <<optimization_result, ef, response, rbVars, objVars, rngVars, lwVars, cvVars, stVars>>

\* Lines 199-215: the response, or the answer to what run_backtest raised.
ApiRespond ==
    /\ api.pc = "backtest"
    /\ bt_out.status \in {"returned", "raised"}
    /\ response' =
         IF bt_out.status = "returned"
         THEN [status |-> "sent", status_code |-> 200,
               optimization |-> optimization_result,
               backtest |-> bt_out,
               efficient_frontier |-> efficient_frontier_data,
               parameters |-> [risk_free_rate |-> api.rf_rate]]
         ELSE IF bt_out.exception = "ValueError"
         THEN HttpError(400, bt_out.exception)
         ELSE HttpError(500, bt_out.exception)
    /\ api' = [api EXCEPT !.pc = "done"]
    /\ UNCHANGED <<optimization_result, efVars, btVars, rbVars, objVars, rngVars, lwVars, cvVars, stVars>>

\* ------------------------------------------------------------------ inputs

\* A price path: the quotes of days 1, 2, 3, the last one kept from then on
\* (0: no quote yet).
PriceOn(shape, day) == shape[IF day > Len(shape) THEN Len(shape) ELSE day]

Shapes == {<<1, 1, 1>>, <<1, 2, 2>>, <<1, 1, 2>>, <<2, 1, 1>>}
LateShapes == {<<0, 0, 1>>, <<0, 0, 0>>}

\* The panel with a row on each day of `days`, column t following shapes[t].
MakePanel(days, shapes) ==
    LET index == SortedSeq(days)
    IN  [index  |-> index,
         prices |-> [k \in 1..Len(index) |-> [t \in Tickers |-> PriceOn(shapes[t], index[k])]]]

\* Column 1 takes any shape, the other columns rise on day 3.
ShapeChoices == {sh \in [Tickers -> Shapes] : \A t \in Tickers \ {1} : sh[t] = <<1, 1, 2>>}

\* Weight maps: everything in one ticker, ticker 1 alone in the map (the others
\* missing), and 1/WeightDen in ticker 1 with the rest in ticker 2.
AllIn(t) == [u \in Tickers |-> IF u = t THEN One ELSE Zero]
Split == [u \in Tickers |-> IF u = 1 THEN Rat(1, WeightDen)
                            ELSE IF u = 2 THEN Rat(WeightDen - 1, WeightDen) ELSE Zero]
WeightMaps == {AllIn(t) : t \in Tickers} \cup {[t \in {1} |-> One], Split}

\* Price paths of ticker 1 that fall below an earlier peak: without a recovery,
\* with one, with a recovery and a second fall, and with two recoveries, the
\* second fall deeper than the first.  The other tickers follow <<1, 1, 2>>.
FallingPaths == {<<1, 2, 1>>, <<2, 4, 2, 4>>, <<4, 8, 4, 8, 6>>, <<8, 16, 12, 16, 8, 16>>}
FallingShapes ==
    {[t \in Tickers |-> IF t = 1 THEN path ELSE <<1, 1, 2>>] : path \in FallingPaths}

\* Two assets quoted at 20, the first then at 22 (+10%), the second at 19 (-5%),
\* any further asset unchanged; half of the capital in each of the two, further
\* assets missing from the map.
TenUpFiveDown ==
    [t \in Tickers |-> IF t = 1 THEN <<20, 22, 22>>
                       ELSE IF t = 2 THEN <<20, 19, 19>> ELSE <<20, 20, 20>>]
HalfHalf == [t \in {1, 2} |-> Rat(1, 2)]

Frequencies == {"never", "monthly", "quarterly", "annual"}
CostRates == {Zero, Rat(1, 10)}
InitialCapital == 100

\* Trading days 1..last, possibly without the first or the second month-end day.
TradingDays == {(1..last) \ h : last \in {0, 1, 2, 3, MaxDay - 1, MaxDay},
                                h \in {{}, {MonthDays}, {2 * MonthDays}}}

\* A benchmark quoted on `days`, its price alternating between 2 and 4.
MakeBenchmark(days) ==
    LET index == SortedSeq(days)
    IN  [present |-> TRUE, index |-> index,
         prices |-> [k \in 1..Len(index) |-> IF index[k] % 2 = 0 THEN 4 ELSE 2]]

AlignPanelDays == {first..last : first \in 1..2, last \in {0, 1, 2, MaxAlignDay - 2, MaxAlignDay - 1, MaxAlignDay}}
AlignBenchmarks ==
    {NoBenchmark, MakeBenchmark({})}
    \cup {MakeBenchmark((first..last) \ gap) :
            first \in 1..3, last \in (MaxAlignDay - 2)..MaxAlignDay, gap \in {{}, {6}}}

\* Return matrices of 2 to MaxObs periods.  Ticker 1 gains 100%, loses 50%, loses
\* everything or stays flat while the other tickers lose 50%, gain 100% or stay
\* flat.
ReturnRow(first, others) == [t \in Tickers |-> IF t = 1 THEN first ELSE others]
ObjRows ==
    {ReturnRow(Zero, Zero), ReturnRow(One, Rat(-1, 2)), ReturnRow(Rat(-1, 2), One),
     ReturnRow(RInt(-1), Zero)}
RECURSIVE Matrices(_)
Matrices(n) ==
    IF n = 0 THEN {<<>>} ELSE {Append(m, r) : m \in Matrices(n - 1), r \in ObjRows}
ObjMatrices == UNION {Matrices(n) : n \in 2..MaxObs}

\* The default annualization factor and risk-free rate of the optimizer's
\* signatures: 252 periods a year, 0.045.
DefaultAnnualization == 252
DefaultRiskFree == Rat(9, 200)

\* Benchmark return arrays of a given length: unchanging, and alternating.
ObjBenchmarks(n) ==
    {BenchmarkReturns([k \in 1..n |-> Zero]),
     BenchmarkReturns([k \in 1..n |-> IF k % 2 = 1 THEN One ELSE Rat(-1, 2)])}

\* The argument tuples of the objective functions: mar is an argument that two of
\* them read, the benchmark returns an argument of negative_treynor alone.
ObjFunctions ==
    {"negative_sharpe", "portfolio_volatility", "negative_return", "kelly_criterion",
     "negative_sortino", "negative_omega", "negative_calmar", "negative_treynor"}
ObjMars(f) == IF f \in {"negative_sortino", "negative_omega"} THEN {Zero, RInt(-1)} ELSE {Zero}
ObjBenchmarksOf(f, n) ==
    IF f = "negative_treynor" THEN ObjBenchmarks(n) \cup {NoBenchmarkReturns}
    ELSE {NoBenchmarkReturns}

\* Requests to /api/optimize.  Weight bounds: the whole range, the lower half,
\* and a band near 1 (valid bounds, though no two or more weights within it sum
\* to 1).  One request fails each validator.
BoundPairs == {<<Zero, One>>, <<Zero, Rat(1, 2)>>, <<Rat(3, 4), One>>}
Request(objective, bounds, frequency) ==
    [tickers_valid |-> TRUE, objective |-> objective,
     min_weight |-> bounds[1], max_weight |-> bounds[2],
     initial_capital |-> InitialCapital, frequency |-> frequency, mar |-> Zero,
     rebalance_freq |-> "never"]
BaseRequest == Request("sharpe", <<Zero, One>>, "daily")
ApiObjectives == {"sharpe", "min_volatility", "max_return", "sortino", "calmar", "treynor"}
ValidRequests ==
    {Request(o, b, "daily") : o \in ApiObjectives, b \in BoundPairs}
    \cup {Request("sharpe", <<Zero, One>>, "monthly")}
InvalidRequests ==
    {[BaseRequest EXCEPT !.tickers_valid = FALSE],
     [BaseRequest EXCEPT !.min_weight = Rat(1, 2), !.max_weight = Rat(1, 2)],
     [BaseRequest EXCEPT !.initial_capital = 0],
     [BaseRequest EXCEPT !.mar = RInt(11)],
     [BaseRequest EXCEPT !.objective = "kelly"],
     [BaseRequest EXCEPT !.objective = "omega"],
     [BaseRequest EXCEPT !.objective = "min_vol"],
     [BaseRequest EXCEPT !.objective = "momentum"],
     [BaseRequest EXCEPT !.frequency = "weekly"]}

\* What the market data source answers: no price data, or a panel without gaps;
\* a benchmark series on the same days, or an empty one; a risk-free rate.
EmptyPanel == [index |-> <<>>, prices |-> <<>>]
Market(prices, benchmark_data) ==
    [prices_found |-> TRUE, prices |-> prices, benchmark_data |-> benchmark_data,
     rf_rate |-> Rat(1, 20)]
\* The same with a 13-week bill quote of 0.
ZeroRateMarket(prices, benchmark_data) ==
    [Market(prices, benchmark_data) EXCEPT !.rf_rate = Zero]
NoData == [Market(EmptyPanel, MakeBenchmark({})) EXCEPT !.prices_found = FALSE]

\* Panels of MinDays + 1 rows: ticker 1 flat, rising or falling from day 1 to
\* day 2, ticker t > 1 rising from 1 to t on day t + 1; and a panel one row short
\* of MinDays.
ApiShape(first) ==
    [t \in Tickers |-> IF t = 1 THEN first ELSE [k \in 1..(t + 1) |-> IF k <= t THEN 1 ELSE t]]
ApiPanel(n, first) == MakePanel(1..n, ApiShape(first))
RisingPanel == ApiPanel(MinDays + 1, <<1, 2, 2>>)
DipPanel == ApiPanel(MinDays + 1, <<2, 1, 2>>)
FlatPanel == ApiPanel(MinDays + 1, <<1, 1, 1>>)
OtherPanels == {FlatPanel, ApiPanel(MinDays + 1, <<2, 1, 1>>)}
ShortPanel == ApiPanel(MinDays - 1, <<1, 2, 2>>)
ApiBenchmark == MakeBenchmark(1..(MinDays + 1))
\* A benchmark first quoted on the panel's second day: it has no return on that
\* day.
LateBenchmark == MakeBenchmark(2..(MinDays + 1))

\* The requests and markets checked: every valid request on the rising panel with
\* a benchmark; every objective without one; the Sharpe and minimum-volatility
\* requests on the other panels; the minimum-volatility request on the flat panel
\* with a risk-free rate of 0 and on the panel whose first ticker dips (the less
\* volatile ticker has the larger mean return); the Sharpe, Sortino and Calmar
\* requests on that panel with a benchmark of the same days, with one that
\* starts a day later and with none; the base request on a short panel and on no data;
\* every invalid request.
ApiCases ==
    {<<r, Market(RisingPanel, ApiBenchmark)>> : r \in ValidRequests}
    \cup {<<Request(o, <<Zero, One>>, "daily"), Market(RisingPanel, MakeBenchmark({}))>> :
            o \in ApiObjectives}
    \cup {<<Request(o, <<Zero, One>>, "daily"), Market(p, ApiBenchmark)>> :
            o \in {"sharpe", "min_volatility", "max_return"}, p \in OtherPanels}
    \cup {<<Request("min_volatility", <<Zero, One>>, "daily"),
             ZeroRateMarket(FlatPanel, ApiBenchmark)>>,
           <<Request("min_volatility", <<Zero, One>>, "daily"),
             Market(DipPanel, ApiBenchmark)>>}
    \cup {<<Request(o, <<Zero, One>>, "daily"), Market(DipPanel, b)>> :
            o \in {"sharpe", "sortino", "calmar"},
            b \in {ApiBenchmark, LateBenchmark, MakeBenchmark({})}}
    \cup {<<BaseRequest, Market(ShortPanel, MakeBenchmark({}))>>, <<BaseRequest, NoData>>}
    \cup {<<r, Market(RisingPanel, MakeBenchmark({}))>> : r \in InvalidRequests}

\* ------------------------------------------- covariance by portfolio size

\* optimize_portfolio and calculate_efficient_frontier take the covariance from
\* ledoit_wolf_shrinkage when num_assets >= 20 and from returns.cov() otherwise;
\* run_backtest takes the standard deviation of the portfolio's return series.
\* This part follows one price panel and one weight vector through the three, in
\* exact arithmetic: what differs here differs by more than rounding.  The
\* panels have 2..MaxColumns columns and CovPeriods return periods, and the
\* threshold of 20 assets is LargePortfolio.
LargePortfolio == 3
MaxColumns == 3
CovPeriods == 2

\* The price paths of a column: up then down, down then up, and up then down at
\* half the size.  Their variances are in the ratio of squares, so that every
\* root the shrinkage takes is rational.
PricePaths == {<<4, 8, 4, 8>>, <<8, 4, 8, 4>>, <<16, 24, 18, 27>>}

CovPanels == UNION {[1..n -> PricePaths] : n \in 2..MaxColumns}

\* prices.pct_change().dropna() of a panel given by its columns: one row per
\* period.
ColumnReturns(prices) ==
    [k \in 1..CovPeriods |-> [j \in DOMAIN prices |->
        RSub(Rat(prices[j][k + 1], prices[j][k]), One)]]

\* The weight vectors over n columns with entries k/WeightSteps that sum to 1.
SimplexGrid(n) ==
    {x \in [1..n -> {Rat(k, WeightSteps) : k \in 0..WeightSteps}] : RSum(x, 1, n) = One}

\* np.sqrt(x) of a rational x >= 0 that is a square.
IntRoot(n) == CHOOSE k \in 0..n : k * k = n
Root(x) == <<IntRoot(x[1]), IntRoot(x[2])>>

\* np.sum((a - b) ** 2) of two matrices over the columns cols.
SquaredDifference(cols, a, b) ==
    RSum([i \in cols |->
            RSum([j \in cols |-> RMul(RSub(a[i][j], b[i][j]), RSub(a[i][j], b[i][j]))],
                 1, Cardinality(cols))],
         1, Cardinality(cols))

\* ledoit_wolf_shrinkage, lines 38-44: the outer product of the standard
\* deviations, the mean off-diagonal correlation and the target.
OuterStd(cols, sample_cov) ==
    [i \in cols |-> [j \in cols |-> Root(RMul(sample_cov[i][i], sample_cov[j][j]))]]

MeanCorrelation(cols, sample_cov, outer) ==
    LET N == Cardinality(cols)
        sample_corr == [i \in cols |-> [j \in cols |-> RDiv(sample_cov[i][j], outer[i][j])]]
    IN  RDiv(RSub(RSum([i \in cols |-> RSum(sample_corr[i], 1, N)], 1, N), RInt(N)),
             RInt(N * (N - 1)))

ConstantCorrelationTarget(cols, sample_cov, outer, mean_corr) ==
    [i \in cols |-> [j \in cols |->
        IF i = j THEN sample_cov[i][i] ELSE RMul(mean_corr, outer[i][j])]]

\* Lines 48-58: delta_num, the mean over the periods of the squared distance
\* between the period's outer product and the sample covariance.
DeltaNum(cols, returns, mean, sample_cov) ==
    LET T == Len(returns)
        sample_cov_t(t) ==
            [i \in cols |-> [j \in cols |->
                RMul(RSub(returns[t][i], mean[i]), RSub(returns[t][j], mean[j]))]]
    IN  RDiv(RSum([t \in 1..T |-> SquaredDifference(cols, sample_cov_t(t), sample_cov)], 1, T),
             RInt(T))

\* Line 62.
ClampedDelta(delta_num, delta_den) ==
    IF RLt(Zero, delta_den)
    THEN RMin(One, RMax(Zero, RDiv(delta_num, delta_den)))
    ELSE Zero

\* Line 65.
ShrunkCov(cols, delta, target, sample_cov) ==
    [i \in cols |-> [j \in cols |->
        RAdd(RMul(delta, target[i][j]), RMul(RSub(One, delta), sample_cov[i][j]))]]

\* num_assets >= 20
IsLargePortfolio(num_assets) == num_assets >= LargePortfolio

\* optimizer.py lines 336-342: the covariance optimize_portfolio works with.
\* c holds the sample covariance and, for a large portfolio, the shrunk one.
OptimizerCov(c) ==
    IF IsLargePortfolio(Len(c.mean_returns)) THEN c.shrunk_cov ELSE c.sample_cov

\* optimizer.py lines 438-444: the covariance calculate_efficient_frontier works
\* with.
FrontierCov_AlwaysSample(c) == c.sample_cov
FrontierCov(c) ==
    IF Len(c.mean_returns) >= LargePortfolio THEN c.shrunk_cov ELSE c.sample_cov

\* backtester.py lines 128-129: portfolio_returns.std() (divisor T - 1) times
\* np.sqrt(annualization_factor).
AnnualizedVolatility_Population(portfolio_returns, annualization_factor) ==
    LET T == Len(portfolio_returns)
        mean == RDiv(RSum(portfolio_returns, 1, T), RInt(T))
    IN  Sqrt(RMul(RDiv(RSum([k \in 1..T |->
                               RMul(RSub(portfolio_returns[k], mean),
                                    RSub(portfolio_returns[k], mean))], 1, T),
                       RInt(T)),
                  RInt(annualization_factor)))
AnnualizedVolatility(portfolio_returns, annualization_factor) ==
    LET T == Len(portfolio_returns)
        mean == RDiv(RSum(portfolio_returns, 1, T), RInt(T))
    IN  Sqrt(RMul(RDiv(RSum([k \in 1..T |->
                               RMul(RSub(portfolio_returns[k], mean),
                                    RSub(portfolio_returns[k], mean))], 1, T),
                       RInt(T - 1)),
                  RInt(annualization_factor)))

CovLocals0 ==
    [pc |-> "returns", returns |-> <<>>, mean_returns |-> <<>>, sample_cov |-> <<>>,
     outer |-> <<>>, target |-> <<>>, shrunk_cov |-> <<>>, delta |-> Zero,
     optimization_result |-> Idle, optimal_portfolio |-> Idle,
     annualized_volatility |-> Sqrt(Zero)]

\* returns = prices.pct_change().dropna(), mean_returns = returns.mean() and
\* returns.cov(), which both callers take (lines 330-333 and 434-436) and the
\* shrinkage takes again (line 30).
CovReturns ==
    /\ cv.pc = "returns"
    /\ \E returns \in {ColumnReturns(cv_in.prices)} :
         cv' = [cv EXCEPT !.pc = IF IsLargePortfolio(Len(cv_in.prices))
                                 THEN "target" ELSE "optimize",
                          !.returns = returns,
                          !.mean_returns = MeanOver(DOMAIN cv_in.prices, returns),
                          !.sample_cov = CovOver(DOMAIN cv_in.prices, returns)]
    /\ UNCHANGED <<cv_in, btVars, rbVars, objVars, apiVars, rngVars, lwVars, stVars>>

\* ledoit_wolf_shrinkage, lines 38-44.
CovTarget ==
    /\ cv.pc = "target"
    /\ \E cols \in {DOMAIN cv_in.prices} :
       \E outer \in {OuterStd(cols, cv.sample_cov)} :
       \E mean_corr \in {MeanCorrelation(cols, cv.sample_cov, outer)} :
         cv' = [cv EXCEPT !.pc = "delta",
                          !.outer = outer,
                          !.target = ConstantCorrelationTarget(
                                         cols, cv.sample_cov, outer, mean_corr)]
    /\ UNCHANGED <<cv_in, btVars, rbVars, objVars, apiVars, rngVars, lwVars, stVars>>

\* ledoit_wolf_shrinkage, lines 46-67.
CovDelta ==
    /\ cv.pc = "delta"
    /\ \E cols \in {DOMAIN cv_in.prices} :
       \E delta_num \in {DeltaNum(cols, cv.returns, cv.mean_returns, cv.sample_cov)} :
       \E delta_den \in {SquaredDifference(cols, cv.sample_cov, cv.target)} :
       \E delta \in {ClampedDelta(delta_num, delta_den)} :
         cv' = [cv EXCEPT !.pc = "optimize",
                          !.delta = delta,
                          !.shrunk_cov = ShrunkCov(cols, delta, cv.target, cv.sample_cov)]
    /\ UNCHANGED <<cv_in, btVars, rbVars, objVars, apiVars, rngVars, lwVars, stVars>>

\* optimize_portfolio(prices) with the defaults, lines 336-345 and 401-419: the
\* solver stops at cv_in.x, and the metrics are those of x under the covariance
\* of lines 336-342.
CovOptimize ==
    /\ cv.pc = "optimize"
    /\ \E perf \in {calculate_portfolio_performance(
                        cv_in.x, cv.mean_returns, OptimizerCov(cv),
                        DefaultRiskFree, DefaultAnnualization)} :
         cv' = [cv EXCEPT !.pc = "frontier",
                          !.optimization_result =
                              [status |-> "returned",
                               weights |-> cv_in.x,
                               metrics |-> [expected_return |-> perf.returns,
                                            volatility |-> perf.std,
                                            sharpe_ratio |-> perf.sharpe]]]
    /\ UNCHANGED <<cv_in, btVars, rbVars, objVars, apiVars, rngVars, lwVars, stVars>>

\* calculate_efficient_frontier(prices, optimal_weights), lines 438-444 and
\* 581-591: the optimal_portfolio entry of the weights passed in.
CovFrontier ==
    /\ cv.pc = "frontier"
    /\ \E perf \in {calculate_portfolio_performance(
                        cv.optimization_result.weights, cv.mean_returns, FrontierCov(cv),
                        DefaultRiskFree, DefaultAnnualization)} :
         cv' = [cv EXCEPT !.pc = "backtest",
                          !.optimal_portfolio =
                              [status |-> "returned",
                               volatility |-> perf.std, return |-> perf.returns,
                               sharpe_ratio |-> perf.sharpe,
                               weights |-> cv.optimization_result.weights]]
    /\ UNCHANGED <<cv_in, btVars, rbVars, objVars, apiVars, rngVars, lwVars, stVars>>

\* run_backtest(prices, weights), lines 96-105 and 128-129, on the weights of the
\* optimization's result.
CovBacktest ==
    /\ cv.pc = "backtest"
    /\ \E portfolio_returns \in
            {[k \in 1..Len(cv.returns) |->
                Dot(cv.returns[k], cv.optimization_result.weights)]} :
         cv' = [cv EXCEPT !.pc = "done",
                          !.annualized_volatility =
                              AnnualizedVolatility(portfolio_returns, DefaultAnnualization)]
    /\ UNCHANGED <<cv_in, btVars, rbVars, objVars, apiVars, rngVars, lwVars, stVars>>

\* ---------------------------------------------- StressTester.run_stress_test

\* SCENARIOS (stress_tester.py lines 14-45), in the order of the dictionary.
ScenarioIds ==
    <<"2008_financial_crisis", "2011_euro_debt", "2018_trade_war", "2020_covid_crash",
      "2022_inflation_bear">>
NumScenarios == 5

\* What yf.download gives for a scenario's period: it raises, or it returns a
\* frame, of which the model keeps whether it has rows, whether they lie in the
\* scenario's dates or only in the five days before, what the portfolio's column
\* and the benchmark's column hold, and the returns of the two over the period.
\* The portfolio is one ticker.
Frame(rows, asset, bench) ==
    [kind |-> "frame", rows |-> rows, asset |-> asset, bench |-> bench,
     asset_return |-> Rat(-1, 4),
     bench_return |-> IF bench = "prices" THEN Rat(-1, 2) ELSE Zero]

Downloads ==
    {[kind |-> "raises"],
     Frame("none", "absent", "absent"),
     Frame("period", "all_nan", "prices"),
     Frame("buffer", "prices", "prices"),
     Frame("period", "absent", "prices"),
     Frame("period", "prices", "prices"),
     Frame("period", "prices", "absent")}

\* The weight of the ticker in the weights dictionary: a number, or a value that
\* is no number (None), on which the dot product of line 159 raises.
StressWeights == {[kind |-> "number", value |-> One], [kind |-> "none"]}

\* The result of a scenario without metrics.
Unavailable(i, reason) == [id |-> ScenarioIds[i], available |-> FALSE, reason |-> reason]

\* Lines 63-219: the body of the loop for scenario i on the download d, with the
\* weight w of the ticker.  An exception raised anywhere in the try block (the
\* download, or the dot product with a weight that is no number) is caught at
\* line 211.
ScenarioResult_AbortOnError(i, d, w) ==
    IF d.kind = "raises" THEN Raised("Exception")
    ELSE Unavailable(i, "Insufficient historical data for one or more assets.")
ScenarioResult(i, d, w) ==
    IF d.kind = "raises" THEN Unavailable(i, "Calculation error")
    ELSE IF d.rows = "none" \/ d.asset = "all_nan"
    THEN Unavailable(i, "Insufficient historical data for one or more assets.")
    ELSE IF d.rows = "buffer" THEN Unavailable(i, "No data within scenario dates.")
    ELSE IF d.asset = "absent"
    THEN Unavailable(i, "One or more assets did not exist during this period.")
    ELSE IF w.kind # "number" THEN Unavailable(i, "Calculation error")
    ELSE [id |-> ScenarioIds[i], available |-> TRUE,
          metrics |-> [portfolio_return |-> RMul(w.value, d.asset_return),
                       benchmark_return |-> d.bench_return,
                       difference |-> RSub(RMul(w.value, d.asset_return), d.bench_return)]]

StressLocals0 == [pc |-> "loop", i |-> 1, results |-> <<>>]

\* Lines 62-219: one pass of the loop over SCENARIOS.
StressScenario ==
    /\ st.pc = "loop"
    /\ st.i <= NumScenarios
    /\ \E r \in {ScenarioResult(st.i, st_in.market[st.i], st_in.weight)} :
         IF "status" \in DOMAIN r
         THEN /\ st' = [st EXCEPT !.pc = "done"]
              /\ st_out' = r
         ELSE /\ st' = [st EXCEPT !.i = st.i + 1, !.results = Append(st.results, r)]
              /\ st_out' = st_out
    /\ UNCHANGED <<st_in, btVars, rbVars, objVars, apiVars, rngVars, lwVars, cvVars>>

\* Line 221: return results.
StressReturn ==
    /\ st.pc = "loop"
    /\ st.i > NumScenarios
    /\ st' = [st EXCEPT !.pc = "done"]
    /\ st_out' = [status |-> "returned", results |-> st.results]
    /\ UNCHANGED <<st_in, btVars, rbVars, objVars, apiVars, rngVars, lwVars, cvVars>>

\* ----------------------------------------------------------- specifications

\* No objective evaluation, no request in progress.
NoObjective == obj_in = Idle /\ obj_out = Idle
NoRequest ==
    /\ api = [pc |-> "idle"]
    /\ optimization_result = Idle
    /\ ef = [pc |-> "idle"]
    /\ efficient_frontier_data = Idle
    /\ response = Idle

\* No call of calculate_efficient_frontier has been made.
Seeds == 0..MaxSeed
NoDraws == np_random = 0 /\ ef_calls = <<>>
NoShrinkage == lw_in = Idle /\ lw = [pc |-> "idle"] /\ lw_out = Idle
NoCovariance == cv_in = Idle /\ cv = [pc |-> "idle"]
NoStressTest == st_in = Idle /\ st = [pc |-> "idle"] /\ st_out = Idle

\* run_backtest alone, on panels and benchmarks whose dates may differ.
InitBT ==
    /\ NoStressTest
    /\ NoCovariance
    /\ \E days \in AlignPanelDays,
          sh \in ShapeChoices \cup {[t \in Tickers |-> l] : l \in LateShapes}
                  \cup {TenUpFiveDown} \cup FallingShapes,
          w \in WeightMaps \cup {HalfHalf}, b \in AlignBenchmarks, f \in {"never"} :
          bt_in = [prices |-> MakePanel(days, sh), weights |-> w, benchmark_data |-> b,
                   initial_capital |-> InitialCapital, rebalance_freq |-> f]
    /\ bt_out = Pending
    /\ rb_in = Idle
    /\ rb = [RBLocals0 EXCEPT !.pc = "idle"]
    /\ rb_out = Idle
    /\ NoObjective
    /\ NoRequest
    /\ NoDraws
    /\ NoShrinkage

NextBT == RunBacktest

SpecBT == InitBT /\ [][NextBT]_vars

\* run_backtest_with_rebalancing, and run_backtest on the same prices, weights and
\* capital.
InitRB ==
    /\ NoStressTest
    /\ NoCovariance
    /\ \E days \in TradingDays, sh \in ShapeChoices, w \in WeightMaps,
          f \in Frequencies, c \in CostRates :
          /\ rb_in = [prices |-> MakePanel(days, sh), weights |-> w,
                      initial_capital |-> InitialCapital,
                      rebalance_frequency |-> f, transaction_cost_pct |-> c]
          /\ bt_in = [prices |-> MakePanel(days, sh), weights |-> w,
                      benchmark_data |-> NoBenchmark,
                      initial_capital |-> InitialCapital, rebalance_freq |-> f]
    /\ rb = RBLocals0
    /\ rb_out = Pending
    /\ bt_out = Pending
    /\ NoObjective
    /\ NoRequest
    /\ NoDraws
    /\ NoShrinkage

NextRB == RBStart \/ RBRow \/ RBFinish \/ RunBacktest

SpecRB == InitRB /\ [][NextRB]_vars


\* One request to POST /api/optimize, from its arrival to the response.
Init ==
    /\ NoStressTest
    /\ NoCovariance
    /\ \E c \in ApiCases :
          api = [pc |-> "received", request |-> c[1], market |-> c[2],
                 prices |-> EmptyPanel, benchmark_prices |-> NoBenchmark,
                 rf_rate |-> Zero, annualization_factor |-> 0,
                 solver_runs |-> 0, failures |-> 0, result |-> Idle]
    /\ optimization_result = Idle
    /\ ef = [pc |-> "idle"]
    /\ efficient_frontier_data = Idle
    /\ response = Idle
    /\ bt_in = Idle
    /\ bt_out = Idle
    /\ rb_in = Idle
    /\ rb = [RBLocals0 EXCEPT !.pc = "idle"]
    /\ rb_out = Idle
    /\ NoObjective
    /\ np_random \in Seeds
    /\ ef_calls = <<>>
    /\ NoShrinkage

Next ==
    \/ ApiReceive
    \/ ApiOptimize
    \/ EfSetup
    \/ EfTarget
    \/ EfReturn
    \/ ApiBacktest
    \/ RunBacktest
    \/ ApiRespond

Spec == Init /\ [][Next]_vars

\* calculate_efficient_frontier called MaxCalls times in one process, each time
\* with the same arguments, the generator being in any state at the first call.
FrontierArgs ==
    {[prices |-> p, optimal_weights |-> [present |-> FALSE],
      risk_free_rate |-> Rat(1, 20), min_weight |-> b[1], max_weight |-> b[2],
      annualization_factor |-> DefaultAnnualization, benchmark_prices |-> NoBenchmark] :
        p \in {RisingPanel, DipPanel} \cup OtherPanels, b \in BoundPairs}
InitMC ==
    /\ NoStressTest
    /\ NoCovariance
    /\ \E a \in FrontierArgs : ef = [pc |-> "call", args |-> a]
    /\ efficient_frontier_data = Pending
    /\ np_random \in Seeds
    /\ ef_calls = <<>>
    /\ NoShrinkage
    /\ api = [pc |-> "caller", solver_runs |-> 0, failures |-> 0]
    /\ optimization_result = Idle
    /\ response = Idle
    /\ bt_in = Idle
    /\ bt_out = Idle
    /\ rb_in = Idle
    /\ rb = [RBLocals0 EXCEPT !.pc = "idle"]
    /\ rb_out = Idle
    /\ NoObjective

NextMC == EfSetup \/ EfTarget \/ EfReturn \/ EfCallAgain

SpecMC == InitMC /\ [][NextMC]_vars

\* ledoit_wolf_shrinkage on return matrices of 0 to MaxShrinkRows rows, the rows
\* drawn from a few patterns over the assets.
ShrinkPatterns ==
    {<<Zero, Zero, Zero>>, <<Rat(1, 2), Rat(1, 2), Rat(1, 2)>>,
     <<Rat(-1, 2), Rat(-1, 2), Rat(-1, 2)>>, <<Rat(-1, 2), Rat(-1, 2), One>>,
     <<Rat(1, 2), One, Rat(1, 2)>>}
ShrinkRows ==
    {[j \in ShrinkIndex |-> IF j = 1 THEN p[1] ELSE IF j % 2 = 0 THEN p[2] ELSE p[3]] :
        p \in ShrinkPatterns}
ShrinkMatrices ==
    UNION {[1..T -> ShrinkRows] : T \in 0..MaxShrinkRows}
InitLW ==
    /\ NoStressTest
    /\ NoCovariance
    /\ lw_in \in ShrinkMatrices
    /\ lw = LWLocals0
    /\ lw_out = Pending
    /\ bt_in = Idle
    /\ bt_out = Idle
    /\ rb_in = Idle
    /\ rb = [RBLocals0 EXCEPT !.pc = "idle"]
    /\ rb_out = Idle
    /\ NoObjective
    /\ NoRequest
    /\ np_random = 0
    /\ ef_calls = <<>>

NextLW == LWMean \/ LWCov \/ LWCorr \/ LWTarget \/ LWRow \/ LWFinish

SpecLW == InitLW /\ [][NextLW]_vars

\* One price panel and one weight vector through optimize_portfolio,
\* calculate_efficient_frontier and run_backtest.
InitCov ==
    /\ NoStressTest
    /\ \E prices \in CovPanels :
       \E x \in SimplexGrid(Len(prices)) :
         cv_in = [status |-> "call", prices |-> prices, x |-> x]
    /\ cv = CovLocals0
    /\ bt_in = Idle
    /\ bt_out = Idle
    /\ rb_in = Idle
    /\ rb = [RBLocals0 EXCEPT !.pc = "idle"]
    /\ rb_out = Idle
    /\ NoObjective
    /\ NoRequest
    /\ NoDraws
    /\ NoShrinkage

NextCov == CovReturns \/ CovTarget \/ CovDelta \/ CovOptimize \/ CovFrontier \/ CovBacktest

SpecCov == InitCov /\ [][NextCov]_vars

\* StressTester.run_stress_test on a one-ticker portfolio, with a download per
\* scenario.
InitST ==
    /\ \E market \in [1..NumScenarios -> Downloads], w \in StressWeights :
         st_in = [status |-> "call", weight |-> w, market |-> market]
    /\ st = StressLocals0
    /\ st_out = Pending
    /\ bt_in = Idle
    /\ bt_out = Idle
    /\ rb_in = Idle
    /\ rb = [RBLocals0 EXCEPT !.pc = "idle"]
    /\ rb_out = Idle
    /\ NoObjective
    /\ NoRequest
    /\ NoDraws
    /\ NoShrinkage
    /\ NoCovariance

NextST == StressScenario \/ StressReturn

SpecST == InitST /\ [][NextST]_vars

\* One objective function, called as the solver calls it: on a weight vector, with
\* the mean returns and the covariance of the return matrix.
InitObj ==
    /\ NoStressTest
    /\ NoCovariance
    /\ \E m \in ObjMatrices, w \in {AllIn(t) : t \in Tickers} \cup {Split}, f \in ObjFunctions :
         \E mar \in ObjMars(f), b \in ObjBenchmarksOf(f, Len(m)) :
          obj_in = [obj_fun |-> f, weights |-> w,
                    mean_returns |-> MeanReturns(m), cov_matrix |-> SampleCov(m),
                    risk_free_rate |-> DefaultRiskFree,
                    annualization_factor |-> DefaultAnnualization,
                    returns_matrix |-> m, benchmark_returns |-> b, mar |-> mar]
    /\ obj_out = Pending
    /\ bt_in = Idle
    /\ bt_out = Idle
    /\ rb_in = Idle
    /\ rb = [RBLocals0 EXCEPT !.pc = "idle"]
    /\ rb_out = Idle
    /\ NoRequest
    /\ NoDraws
    /\ NoShrinkage

NextObj == EvalObjective

SpecObj == InitObj /\ [][NextObj]_vars

\* ------------------------------------------------------------------ claims

\* The dates of the portfolio's return series, and of the benchmark's.
ReturnDates(panel) == {panel.index[i] : i \in ReturnRows(panel)}
BTFinished == bt_out.status \in {"returned", "raised"}
BenchmarkSupplied == bt_in.benchmark_data.present /\ Len(bt_in.benchmark_data.index) > 0
CommonDates == ReturnDates(bt_in.prices) \cap SeqToSet(bt_in.benchmark_data.index)
BenchmarkMetricNames ==
    {"beta", "alpha", "tracking_error", "information_ratio", "up_capture", "down_capture", "r_squared"}

\* C6: on a price panel that yields no return observation, run_backtest raises
\* nothing and returns a result whose metrics map is empty.
C6_NoReturnsGivesEmptyMetrics ==
    (BTFinished /\ ReturnRows(bt_in.prices) = {})
        => (bt_out.status = "returned" /\ DOMAIN bt_out.metrics = {})

\* C7: whatever the benchmark's dates are against the portfolio's return dates,
\* run_backtest (on a non-empty return series) never raises: it returns the
\* non-benchmark metrics, and the benchmark metrics computed or zeroed.
C7_MisalignedBenchmarkNeverRaises ==
    (BTFinished /\ ReturnRows(bt_in.prices) # {} /\ BenchmarkSupplied)
        => (/\ bt_out.status = "returned"
            /\ "total_return" \in DOMAIN bt_out.metrics
            /\ bt_out.metrics.benchmark_assigned \subseteq
                   BenchmarkMetricNames \cup {"benchmark_correlation"})

WeightsSumToOne(weights) == RSum(WeightVector(weights), 1, NumAssets) = One

\* C9: with schedule "never", run_backtest_with_rebalancing returns the total
\* return that run_backtest reports for the same prices, weights (summing to 1)
\* and capital.
C9_NeverEqualsRunBacktest ==
    (/\ rb_out.status = "returned"
     /\ bt_out.status = "returned"
     /\ rb_in.rebalance_frequency = "never"
     /\ WeightsSumToOne(rb_in.weights))
        => rb_out.total_return = bt_out.metrics.total_return

\* C10: with a monthly, quarterly or annual schedule, every period that has a
\* price row and ends within the price path gets exactly one rebalance, and
\* num_rebalances counts these.
C10_OneRebalancePerPeriod ==
    LET L == PeriodDays(rb_in.rebalance_frequency)
        index == rb_in.prices.index
        periods == {PeriodOf(index[k], L) : k \in {j \in 1..Len(index) :
                        PeriodEnd(PeriodOf(index[j], L), L) <= index[Len(index)]}}
        dates == rb_out.rebalance_dates
    IN  (rb_out.status = "returned" /\ L > 0) =>
          /\ \A p \in periods :
                Cardinality({k \in 1..Len(dates) : PeriodOf(dates[k], L) = p}) = 1
          /\ rb_out.num_rebalances = Cardinality(periods)

\* C11: run_backtest called with rebalance_freq monthly, quarterly or annual
\* returns a result that has a rebalancing record; called with "never" it returns
\* a result without one.
C11_RebalancingRecordWithSchedule ==
    (bt_out.status = "returned" /\ "trailing_returns" \in bt_out.keys) =>
        ("rebalancing" \in bt_out.keys <=> bt_in.rebalance_freq # "never")

\* ---------------------------------------------- claims on /api/optimize

Answered(code) == response.status = "sent" /\ response.status_code = code

\* optimize_portfolio has been called and has ended.
OptimizeEnded == optimization_result.status \in {"returned", "raised"}

\* C1: when /api/optimize is called with objective sharpe and the optimization
\* succeeds, the response's efficient_frontier.optimal_portfolio has exactly the
\* weights of optimization.weights, and its return, volatility and sharpe_ratio
\* are optimization.metrics' expected_return, volatility and sharpe_ratio.
C1_SharpeOptimalIsOptimization ==
    (Answered(200) /\ api.request.objective = "sharpe") =>
        LET o == response.optimization
            p == response.efficient_frontier.optimal_portfolio
        IN  /\ o.success
            /\ p.present
            /\ p.weights = o.weights
            /\ p.return = o.metrics.expected_return
            /\ p.volatility = o.metrics.volatility
            /\ p.sharpe_ratio = o.metrics.sharpe_ratio

\* C1's case: a Sharpe request answered 200 whose frontier sweep, left to itself,
\* would have named a point with other weights.
C1_Witness ==
    /\ Answered(200)
    /\ api.request.objective = "sharpe"
    /\ response.efficient_frontier.frontier_points # <<>>
    /\ MaxSharpe(Head(response.efficient_frontier.frontier_points),
                 Tail(response.efficient_frontier.frontier_points)).weights
           # response.optimization.weights

\* A weight vector sums to 1 and has every weight inside the request's bounds.
MeetsConstraints(w) ==
    /\ RSum(w, 1, NumAssets) = One
    /\ \A t \in Tickers :
          RLeq(api.request.min_weight, w[t]) /\ RLeq(w[t], api.request.max_weight)

FrontierWeightsMeetConstraints ==
    efficient_frontier_data.status = "returned" =>
        /\ efficient_frontier_data.min_variance_portfolio.present =>
              MeetsConstraints(efficient_frontier_data.min_variance_portfolio.weights)
        /\ \A k \in 1..Len(efficient_frontier_data.frontier_points) :
              MeetsConstraints(efficient_frontier_data.frontier_points[k].weights)

\* C2, as stated: every weight vector returned by optimize_portfolio, and every
\* weight vector of min_variance_portfolio and of each frontier point, sums to 1
\* and lies inside [min_weight, max_weight], whatever the returned success flag.
C2_EveryWeightVectorMeetsConstraints ==
    /\ optimization_result.status = "returned" => MeetsConstraints(optimization_result.weights)
    /\ FrontierWeightsMeetConstraints

\* C2, amended: the weight vector optimize_portfolio returns with success = true,
\* and every weight vector of min_variance_portfolio and of the frontier points
\* (which are recorded from successful solves only), sums to 1 and lies inside
\* [min_weight, max_weight].
C2_SuccessfulWeightVectorsMeetConstraints ==
    /\ (optimization_result.status = "returned" /\ optimization_result.success)
          => MeetsConstraints(optimization_result.weights)
    /\ FrontierWeightsMeetConstraints

\* C2's case: under bounds narrower than [0, 1], a frontier returned with a
\* minimum variance portfolio and points, one sweep solve having failed.
C2_Witness ==
    /\ efficient_frontier_data.status = "returned"
    /\ api.request.max_weight # One
    /\ optimization_result.success
    /\ efficient_frontier_data.min_variance_portfolio.present
    /\ efficient_frontier_data.frontier_points # <<>>
    /\ Len(efficient_frontier_data.frontier_points) < Len(ef.target_returns)

\* C3: when the solver does not converge, optimize_portfolio raises nothing: it
\* returns the solver's last iterate as weights, the metrics computed from that
\* iterate, success = false and the solver's message; the caller (the handler)
\* rejects the result with status 500.
C3_NonConvergenceIsReturned ==
    (api.result # Idle /\ ~api.result.success) =>
        \E p \in {OptimizeProblem(OptimizeArgs(api))} :
        \E perf \in {calculate_portfolio_performance(
                        api.result.x, p.mean_returns, p.cov_matrix, p.risk_free_rate,
                        p.annualization_factor)} :
            /\ optimization_result.status = "returned"
            /\ optimization_result.weights = api.result.x
            /\ optimization_result.metrics =
                   [expected_return |-> perf.returns, volatility |-> perf.std,
                    sharpe_ratio |-> perf.sharpe]
            /\ optimization_result.success = FALSE
            /\ optimization_result.message = api.result.message
            /\ Answered(500)

\* C3's case: a failed run whose last iterate does not sum to 1 has been returned.
C3_Witness ==
    /\ api.result # Idle
    /\ ~api.result.success
    /\ optimization_result.status = "returned"
    /\ RSum(optimization_result.weights, 1, NumAssets) # One

\* C4: optimize_portfolio called with objective treynor and no benchmark prices
\* raises before the solver is run and returns no result (the handler answers
\* 400); with any other objective and no benchmark it raises nothing.
C4_TreynorWithoutBenchmarkRaises ==
    (OptimizeEnded /\ ~api.benchmark_prices.present) =>
        IF api.request.objective = "treynor"
        THEN /\ optimization_result = Raised("ValueError")
             /\ api.solver_runs = 0
             /\ Answered(400)
        ELSE optimization_result.status = "returned"

\* C4's case: a treynor request without benchmark data has reached
\* optimize_portfolio, which raised.
C4_Witness ==
    /\ OptimizeEnded
    /\ ~api.benchmark_prices.present
    /\ api.request.objective = "treynor"
    /\ optimization_result.status = "raised"

AtLeast(s, t) == s.kind # "nan" /\ t.kind # "nan" /\ ~Greater(t, s)

\* C13: for every objective other than sharpe, the optimal_portfolio of the
\* response is the frontier generator's own: the entry of frontier_points with
\* the largest sharpe_ratio, absent only when frontier_points is empty, and not
\* overwritten with the optimization result.
C13_OtherObjectivesOptimalFromFrontier ==
    (Answered(200) /\ api.request.objective # "sharpe") =>
        LET points == response.efficient_frontier.frontier_points
            p == response.efficient_frontier.optimal_portfolio
        IN  /\ p = efficient_frontier_data.optimal_portfolio
            /\ ~p.present <=> points = <<>>
            /\ p.present =>
                  /\ \E k \in 1..Len(points) : points[k] = p
                  /\ \A k \in 1..Len(points) :
                        points[k] = p \/ AtLeast(p.sharpe_ratio, points[k].sharpe_ratio)

\* The targets whose solve succeeded, in the order of the sweep.
SolvedTargets ==
    LET idx == SortedSeq({k \in 1..Len(ef.solved) : ef.solved[k]})
    IN  [j \in 1..Len(idx) |-> ef.target_returns[idx[j]]]

\* C14: frontier_points holds one point for exactly the targets whose solve
\* succeeded, in ascending target-return order; a failed solve adds no point and
\* does not stop the sweep over the remaining targets.
C14_PointsOfSolvedTargetsAscending ==
    efficient_frontier_data.status = "returned" =>
        LET points == efficient_frontier_data.frontier_points
        IN  /\ Len(ef.solved) = Len(ef.target_returns)
            /\ [k \in 1..Len(points) |-> points[k].return] = SolvedTargets
            /\ \A j, k \in 1..Len(points) :
                  j < k => RLeq(points[j].return, points[k].return)

\* C15: a request whose input fails an InputValidator check, or for which no
\* price data is found, is answered with status 400 and the detail message of
\* the failed check.
C15_InvalidInputAnswered400 ==
    (/\ response.status = "sent"
     /\ (ValidationFailure(api.request) # "" \/ ~api.market.prices_found)) =>
        /\ Answered(400)
        /\ ValidationFailure(api.request) # "" =>
              response.detail = ValidationFailure(api.request)

\* C16: the result of a call of calculate_efficient_frontier is a function of
\* that call's arguments only: two calls with the same arguments return the
\* same result, whatever calls were made before.  Of the result, the formula
\* compares monte_carlo_points.
C16_SameArgumentsSameResult ==
    \A i, j \in 1..Len(ef_calls) :
        ef_calls[i].args = ef_calls[j].args =>
            ef_calls[i].monte_carlo_points = ef_calls[j].monte_carlo_points

\* C17: ledoit_wolf_shrinkage fails with an insufficient-data error raised to
\* the caller when the return matrix has fewer than 2 rows, instead of returning
\* a covariance matrix.
C17_FewerThanTwoRowsRaises ==
    (lw_out.status \in {"returned", "raised"} /\ Len(lw_in) < 2) =>
        lw_out = Raised("InsufficientDataError")

\* C18: the shrinkage intensity delta returned by ledoit_wolf_shrinkage lies in
\* [0, 1] for every return matrix, and is 0 when the sample covariance equals
\* the target (denominator 0).
C18_DeltaInUnitInterval ==
    lw_out.status = "returned" =>
        /\ RLeq(Zero, lw_out.delta) /\ RLeq(lw_out.delta, One)
        /\ lw.delta_den = Zero => lw_out.delta = Zero

\* C18's case: a sample covariance equal to its target (denominator 0, the
\* numerator not), returned with delta 0.
C18_Witness ==
    /\ lw_out.status = "returned"
    /\ lw.sample_cov = lw.target
    /\ lw.delta_den = Zero
    /\ lw.delta_num # NaNF
    /\ RLt(Zero, lw.delta_num)
    /\ lw_out.delta = Zero

\* C19: each diagonal entry of the shrunk covariance returned by
\* ledoit_wolf_shrinkage equals the corresponding sample variance exactly.
C19_DiagonalIsSampleVariance ==
    (lw_out.status = "returned" /\ Len(lw_in) >= 2) =>
        \A i \in ShrinkIndex : lw_out.shrunk_cov[i][i] = lw.sample_cov[i][i]

\* C20: for every non-empty portfolio return series, the metrics of run_backtest
\* satisfy var_99_daily <= var_95_daily.
C20_Var99BelowVar95 ==
    (bt_out.status = "returned" /\ bt_out.metrics # <<>>) =>
        RLeq(bt_out.metrics.var_99_daily, bt_out.metrics.var_95_daily)

\* C20's case: a series of several returns whose two values at risk differ.
C20_Witness ==
    /\ bt_out.status = "returned"
    /\ bt_out.metrics # <<>>
    /\ bt_out.metrics.days >= 2
    /\ RLt(bt_out.metrics.var_99_daily, bt_out.metrics.var_95_daily)

\* The weighted sum of the asset returns of the k-th return period of the panel
\* handed to run_backtest, a column missing from the weights map counting 0.
WeightedReturn(k) ==
    LET row == AssetReturns(bt_in.prices).rows[k]
    IN  RSum([t \in Tickers |->
                 IF t \in DOMAIN bt_in.weights THEN RMul(bt_in.weights[t], row[t])
                 ELSE Zero], 1, NumAssets)
Growth(k) == RProd([j \in 1..k |-> RAdd(One, WeightedReturn(j))], 1, k)

\* C21: in run_backtest the portfolio return of every period is the sum over the
\* price columns of weight x that asset's period return, with weight 0 for a
\* column missing from the weights map: the value charted for every period is
\* initial_capital x the compounded weighted returns up to it (to the cent), and
\* total_return is the compounded weighted return of all periods.
C21_PortfolioReturnIsWeightedSum ==
    (bt_out.status = "returned" /\ bt_out.metrics # <<>>) =>
        /\ \A k \in 1..bt_out.metrics.days :
              bt_out.chart_data[k].value =
                  Round2(RMul(RInt(bt_in.initial_capital), Growth(k)))
        /\ bt_out.metrics.total_return = RSub(Growth(bt_out.metrics.days), One)

\* C21's case: equal weights on assets returning +10% and -5% in the first
\* period give 2.5%, the value after that period being initial_capital x 1.025.
C21_Witness ==
    /\ bt_out.status = "returned"
    /\ bt_out.metrics # <<>>
    /\ bt_in.weights = HalfHalf
    /\ AssetReturns(bt_in.prices).rows[1][1] = Rat(1, 10)
    /\ AssetReturns(bt_in.prices).rows[1][2] = Rat(-1, 20)
    /\ WeightedReturn(1) = Rat(1, 40)
    /\ bt_out.chart_data[1].value = Round2(RMul(RInt(bt_in.initial_capital), Rat(41, 40)))

\* C5: every objective function returns a finite number (a ratio or a large
\* finite sentinel) for every weight vector, never NaN or +/-Inf, and never
\* raises (negative_treynor without benchmark returns aside).
C5_ObjectiveAlwaysFinite ==
    (/\ obj_out.status \in {"returned", "raised"}
     /\ ~(obj_in.obj_fun = "negative_treynor" /\ ~obj_in.benchmark_returns.present))
        => (/\ obj_out.status = "returned"
            /\ obj_out.value.kind \in {"finite", "sentinel"})


\* ------------------------------------------ claims on the covariance rule

\* Two volatilities agree within tolerance: their squares differ by at most
\* VolTolerance.
VolTolerance == Rat(1, 1000)
SameVolatility(u, v) == RLeq(RAbs(RSub(u.sqrt_of, v.sqrt_of)), VolTolerance)

IsMixed(x) == \E i, j \in DOMAIN x : i # j /\ RLt(Zero, x[i]) /\ RLt(Zero, x[j])

C27_SameCovarianceRule ==
    /\ cv.pc \in {"optimize", "frontier", "backtest", "done"} =>
          FrontierCov(cv) = OptimizerCov(cv)
    /\ cv.pc \in {"backtest", "done"} =>
          /\ cv.optimal_portfolio.volatility = cv.optimization_result.metrics.volatility
          /\ cv.optimal_portfolio.sharpe_ratio = cv.optimization_result.metrics.sharpe_ratio

\* A large panel that the shrinkage changes (delta > 0), with weights whose
\* volatility under the shrunk covariance is not the one under the sample
\* covariance, after both functions have returned.
C27_Witness ==
    /\ cv.pc = "done"
    /\ IsLargePortfolio(Len(cv_in.prices))
    /\ RLt(Zero, cv.delta)
    /\ cv.shrunk_cov # cv.sample_cov
    /\ cv.optimal_portfolio.volatility # cv.annualized_volatility
    /\ cv.optimal_portfolio.volatility = cv.optimization_result.metrics.volatility


\* ------------------------------------------------ claims on the frontier

C23_AbsentReached ==
    /\ efficient_frontier_data.status = "returned"
    /\ ~efficient_frontier_data.optimal_portfolio.present


SansId(r) == [k \in DOMAIN r \ {"id"} |-> r[k]]

\* C25: run_stress_test returns exactly one result per defined scenario (five),
\* in the scenarios' order, each either available with metrics or unavailable
\* with a reason; missing data or an exception in one scenario does not abort
\* the run and does not alter the other scenarios' results (scenarios with the
\* same download have the same result).
C25_OneResultPerScenario ==
    st.pc = "done" =>
        /\ st_out.status = "returned"
        /\ Len(st_out.results) = 5
        /\ \A i \in 1..Len(st_out.results) :
              LET r == st_out.results[i]
              IN  /\ r.id = ScenarioIds[i]
                  /\ IF r.available
                     THEN "metrics" \in DOMAIN r /\ "reason" \notin DOMAIN r
                     ELSE "reason" \in DOMAIN r /\ "metrics" \notin DOMAIN r
        /\ \A i, j \in 1..Len(st_out.results) :
              st_in.market[i] = st_in.market[j] =>
                  SansId(st_out.results[i]) = SansId(st_out.results[j])

\* A run in which the download of one scenario raised, another scenario lacked
\* data, and a later scenario is available.
C25_Witness ==
    /\ st.pc = "done"
    /\ st_out.status = "returned"
    /\ \E i, j, k \in 1..NumScenarios :
          /\ i < k /\ j < k
          /\ st_in.market[i].kind = "raises"
          /\ st_in.market[j].kind = "frame" /\ st_in.market[j].asset = "all_nan"
          /\ ~st_out.results[i].available
          /\ ~st_out.results[j].available
          /\ st_out.results[k].available


\* ------------------------------------------- claims on drawdown episodes

\* The value of the portfolio at each period, and how far it lies below the
\* highest value so far.
ValueSeries ==
    SubSeq([k \in 1..Len(AssetReturns(bt_in.prices).rows) |-> Growth(k)],
           1, Len(AssetReturns(bt_in.prices).rows))
BelowPeak(values, k) ==
    LET peak == CHOOSE m \in {values[j] : j \in 1..k} : \A j \in 1..k : RLeq(values[j], m)
    IN  RDiv(RSub(values[k], peak), peak)

\* The episodes of a value series: the maximal runs i..j of consecutive periods
\* below the running peak, the last of which may reach the last period.
Episodes(values) ==
    {e \in (1..Len(values)) \X (1..Len(values)) :
        /\ e[1] <= e[2]
        /\ \A k \in e[1]..e[2] : RLt(BelowPeak(values, k), Zero)
        /\ e[1] = 1 \/ ~RLt(BelowPeak(values, e[1] - 1), Zero)
        /\ e[2] = Len(values) \/ ~RLt(BelowPeak(values, e[2] + 1), Zero)}
EpisodeDepth(values, e) ==
    CHOOSE d \in {BelowPeak(values, k) : k \in e[1]..e[2]} :
        \A k \in e[1]..e[2] : RLeq(d, BelowPeak(values, k))

\* C26: the drawdowns list of run_backtest holds the five deepest drawdown
\* episodes of the value series (all of them when there are fewer), deepest
\* first, an episode being a maximal run of periods below the running peak
\* whether or not the portfolio has recovered by the last period; so whenever
\* max_drawdown < 0 the first listed depth is max_drawdown, and every episode
\* has start <= trough <= end.
C26_DeepestEpisodesListed ==
    (bt_out.status = "returned" /\ "drawdowns" \in bt_out.keys) =>
        \E values \in {ValueSeries} :
        \E episodes \in {Episodes(values)} :
        \E listed \in {bt_out.drawdowns} :
            /\ Len(listed) = IF Cardinality(episodes) < 5 THEN Cardinality(episodes) ELSE 5
            /\ \A i \in 1..Len(listed) :
                  /\ listed[i].start <= listed[i].trough
                  /\ listed[i].trough <= listed[i].end
                  /\ \A j \in (i + 1)..Len(listed) : RLeq(listed[i].depth, listed[j].depth)
                  /\ \E e \in episodes : EpisodeDepth(values, e) = listed[i].depth
            /\ RLt(bt_out.metrics.max_drawdown, Zero) =>
                  /\ listed # <<>>
                  /\ listed[1].depth = bt_out.metrics.max_drawdown

\* The part of C26 that the list does meet: it holds the recovered episodes,
\* deepest first, each with start <= trough <= end.
C26_RecoveredEpisodesListed ==
    (bt_out.status = "returned" /\ "drawdowns" \in bt_out.keys) =>
        \E values \in {ValueSeries} :
        \E recovered \in {{e \in Episodes(values) : e[2] < Len(values)}} :
        \E listed \in {bt_out.drawdowns} :
            /\ Len(listed) = IF Cardinality(recovered) < 5 THEN Cardinality(recovered) ELSE 5
            /\ \A i \in 1..Len(listed) :
                  /\ listed[i].start <= listed[i].trough
                  /\ listed[i].trough <= listed[i].end
                  /\ \A j \in (i + 1)..Len(listed) : RLeq(listed[i].depth, listed[j].depth)
                  /\ \E e \in recovered : EpisodeDepth(values, e) = listed[i].depth

\* A backtest that ends below its peak: max_drawdown is below 0 and the episode
\* it belongs to is not listed.
C26_UnrecoveredEpisodeDropped ==
    /\ bt_out.status = "returned"
    /\ "drawdowns" \in bt_out.keys
    /\ RLt(bt_out.metrics.max_drawdown, Zero)
    /\ \A i \in 1..Len(bt_out.drawdowns) :
          bt_out.drawdowns[i].depth # bt_out.metrics.max_drawdown

\* A backtest with two recovered episodes, listed deepest first though the
\* deeper one came second.
C26_TwoEpisodesReordered ==
    /\ bt_out.status = "returned"
    /\ "drawdowns" \in bt_out.keys
    /\ Len(bt_out.drawdowns) = 2
    /\ bt_out.drawdowns[2].start < bt_out.drawdowns[1].start


\* --------------------------------------------- claims on negative_calmar

\* C28: negative_calmar returns a sentinel instead of a Calmar ratio whenever the
\* return history covers less than one year (fewer return observations than the
\* annualization factor) or the maximum drawdown is approximately 0.
C28_ShortHistoryGivesSentinel ==
    (/\ obj_in.obj_fun = "negative_calmar"
     /\ obj_out.status \in {"returned", "raised"}
     /\ \/ Len(obj_in.returns_matrix) < obj_in.annualization_factor
        \/ \E values \in {SubSeq(CumProd(MatrixDot(obj_in.returns_matrix, obj_in.weights)),
                                 1, Len(obj_in.returns_matrix))} :
              \A k \in 1..Len(values) : \A j \in 1..k : RLeq(values[j], values[k]))
        => (/\ obj_out.status = "returned"
            /\ obj_out.value.kind = "sentinel")

\* The part of C28 that the function does meet: a wealth path that never falls
\* below an earlier value (maximum drawdown 0) gives the sentinel -1e10.
C28_NoDrawdownGivesSentinel ==
    (/\ obj_in.obj_fun = "negative_calmar"
     /\ obj_out.status \in {"returned", "raised"}
     /\ \E values \in {SubSeq(CumProd(MatrixDot(obj_in.returns_matrix, obj_in.weights)),
                              1, Len(obj_in.returns_matrix))} :
           /\ RLt(Zero, values[1])
           /\ \A k \in 1..Len(values) : \A j \in 1..k : RLeq(values[j], values[k]))
        => obj_out = Returned(Sentinel(-1))

\* negative_calmar has returned a Calmar ratio for a history of fewer periods
\* than a year has.
C28_ShortHistoryGivesRatio ==
    /\ obj_in.obj_fun = "negative_calmar"
    /\ Len(obj_in.returns_matrix) < obj_in.annualization_factor
    /\ obj_out = Returned(Finite)


\* ------------------------------------------------ claims on the objectives

\* The eight objectives of the specification and the objective function of each.
EightObjectives ==
    {"sharpe", "min_vol", "max_return", "kelly", "sortino", "omega", "treynor", "calmar"}
OwnFunction(objective) ==
    CASE objective = "sharpe" -> "negative_sharpe"
      [] objective = "min_vol" -> "portfolio_volatility"
      [] objective = "max_return" -> "negative_return"
      [] objective = "kelly" -> "kelly_criterion"
      [] objective = "sortino" -> "negative_sortino"
      [] objective = "omega" -> "negative_omega"
      [] objective = "treynor" -> "negative_treynor"
      [] objective = "calmar" -> "negative_calmar"

\* C29: each of the eight objectives sharpe, min_vol, max_return, kelly, sortino,
\* omega, treynor and calmar, requested through /api/optimize, passes
\* validate_objective and is dispatched by optimize_portfolio to its own
\* objective function; the Sharpe fallback is taken only for a name outside
\* these eight.
C29_EightObjectivesAccepted ==
    (api.pc # "received" /\ api.request.objective \in EightObjectives) =>
        /\ response # HttpError(500, "Invalid objective")
        /\ ObjectiveFunction(api.request.objective) = OwnFunction(api.request.objective)

\* The part of C29 that optimize_portfolio does meet: it dispatches each of the
\* eight names to its own function, and a request the validators have passed is
\* never served by the Sharpe fallback.
C29_DispatchedToOwnFunction ==
    /\ \A o \in EightObjectives : ObjectiveFunction(o) = OwnFunction(o)
    /\ (api.pc \notin {"received", "done"} /\ api.request.objective # "sharpe") =>
          ObjectiveFunction(api.request.objective) # "negative_sharpe"

\* A request for the Kelly objective that the endpoint has refused.
C29_KellyRefused ==
    /\ api.pc = "done"
    /\ api.request.objective = "kelly"
    /\ response = HttpError(500, "Invalid objective")


\* ------------------------------------------------ claims on the benchmark

\* obj_fun(x, *args) as the solver of optimize_portfolio calls it (lines
\* 368-399): the arguments of every objective come from the same locals.
SolverCall(p, x) ==
    CallObjective(p.obj_fun,
                  [obj_fun |-> p.obj_fun, weights |-> x,
                   mean_returns |-> p.mean_returns, cov_matrix |-> p.cov_matrix,
                   risk_free_rate |-> p.risk_free_rate,
                   annualization_factor |-> p.annualization_factor,
                   returns_matrix |-> p.returns_matrix,
                   benchmark_returns |-> p.benchmark_returns, mar |-> p.mar])

\* The call of optimize_portfolio made for the request, and the same call
\* without benchmark prices.
WithoutBenchmark(a) == [a EXCEPT !.benchmark_prices = NoBenchmark]

\* Two calls hand the solver the same function (the same value at every
\* candidate weight vector) and have the same possible results.
SameOptimization(a, b) ==
    /\ \E p \in {OptimizeProblem(a)}, q \in {OptimizeProblem(b)} :
          \A x \in WeightGrid : SolverCall(p, x) = SolverCall(q, x)
    /\ {o.out : o \in optimize_portfolio(a, 0)} = {o.out : o \in optimize_portfolio(b, 0)}

\* C30: for every objective other than treynor, the weights and metrics
\* optimize_portfolio returns are the same whether or not benchmark prices are
\* supplied and whatever dates the benchmark covers: the function the solver
\* minimizes and the results it can give are those of the call without a
\* benchmark.
C30_BenchmarkOnlyForTreynor ==
    (api.result # Idle /\ api.request.objective # "treynor") =>
        SameOptimization(OptimizeArgs(api), WithoutBenchmark(OptimizeArgs(api)))

\* The part of C30 that optimize_portfolio does meet: a benchmark with a return
\* on every return date of the portfolio changes nothing for an objective other
\* than treynor, and no benchmark changes anything for sharpe, min_volatility
\* and max_return.
C30_BenchmarkOfSameDates ==
    (/\ api.result # Idle
     /\ api.request.objective # "treynor"
     /\ \/ ~api.benchmark_prices.present
        \/ api.request.objective \in {"sharpe", "min_volatility", "max_return"}
        \/ \A k \in DOMAIN AssetReturns(api.prices).index :
              AssetReturns(api.prices).index[k] \in BenchReturnDates(api.benchmark_prices))
        => SameOptimization(OptimizeArgs(api), WithoutBenchmark(OptimizeArgs(api)))

\* A Sortino request has been optimized with a benchmark that has no return on
\* the day of the portfolio's only loss: the solver was given a function that is
\* the sentinel at every weight vector, where the function without the benchmark
\* is not.
C30_SortinoSeesFewerDays ==
    /\ api.result # Idle
    /\ api.request.objective = "sortino"
    /\ api.benchmark_prices = LateBenchmark
    /\ \E p \in {OptimizeProblem(OptimizeArgs(api))} :
          /\ Len(p.returns_matrix) < Len(AssetReturns(api.prices).index)
          /\ \A x \in WeightGrid : SolverCall(p, x) = Returned(Sentinel(-1))
    /\ \E q \in {OptimizeProblem(WithoutBenchmark(OptimizeArgs(api)))} :
          \E x \in WeightGrid : SolverCall(q, x) # Returned(Sentinel(-1))

=============================================================================
